---- MODULE Spec2Model ----
(***************************************************************************)
(* Model of scripts/autotile47.py: the 47-tile blob autotile generator.    *)
(*                                                                         *)
(* Mask algebra (reduce_bitmask, compute_47_bitmasks), quadrant role       *)
(* resolution (_get_quadrant_role), seeded variant selection               *)
(* (_pick_per_role), tile composition (_generate_single_variant) and the   *)
(* variant set builder (generate_all_variants) with the index emitted by   *)
(* generate_ron_mapping.                                                   *)
(*                                                                         *)
(* A pixel buffer is modelled by its provenance: for each of its four      *)
(* quadrants, which source entry and which sub-quadrant of it was sampled, *)
(* and which centre entry (if any) lies under it.  A weight is a positive  *)
(* integer; normalised weights are kept in millionths (6 decimals).        *)
(***************************************************************************)
EXTENDS Integers, Sequences, FiniteSets, TLC

VARIABLES
    pc,            \* position in the operation being modelled
    raw,           \* compute_47_bitmasks: next raw value of range(256)
    unique,        \* compute_47_bitmasks: the set comprehension so far
    reduced,       \* raw value -> reduce_bitmask(raw), for the values done
    bitmasks,      \* result of compute_47_bitmasks
    quadrant,      \* _get_quadrant_role: argument quadrant
    mask,          \* _get_quadrant_role / _generate_single_variant: argument mask
    q_role,        \* _get_quadrant_role: returned (role, needs composite)
    input,         \* process_single: the input file, by what the loaders read of it
    roles,         \* RoleVariants: role name -> list of SourceEntry
    seed,          \* --seed
    max_variants,  \* --max-variants: <<>> is None, <<c>> is the cap c
    layout,        \* --layout
    ts,            \* tile size in pixels
    variant_idx,   \* draw index
    picks,         \* _pick_per_role results for draw indices 0, 1, ...
    tile,          \* _generate_single_variant: returned TileVariant
    bm_idx,        \* generate_all_variants: position in bitmasks
    k,             \* generate_all_variants: variant count of the mask in hand
    all_results,   \* generate_all_variants: mask -> list of TileVariant
    global_max,    \* generate_all_variants: largest k so far
    messages,      \* verify_output: the messages of the self-check
    sheet,         \* layout_spritesheet: the atlas image
    ron,           \* generate_ron_mapping: the emitted index
    cell,          \* generate_test_map: the position (x, y) in hand
    map_variants,  \* generate_test_map: the variant list of the cell's mask
    t_num,         \* generate_test_map: h & 0xFFFFFFFF, as four bytes, low first
    cumulative,    \* generate_test_map: running weight sum, in millionths
    picked,        \* generate_test_map: chosen
    walk_i,        \* generate_test_map: variants walked so far
    pattern,       \* generate_test_map: the fill pattern, rows of 0 and 1
    cell_mask,     \* generate_test_map: mask, of the cell in hand
    out,           \* generate_test_map: what was pasted, and where
    inputs,        \* main: the resolved input files
    batch_i,       \* main: inputs gone through so far
    log,           \* main: per input, what process_single ended with
    exit_status    \* main: <<>> while running, <<0>> on return, <<1>> on sys.exit(1)

maskVars == <<raw, unique, reduced, bitmasks>>
quadVars == <<quadrant, mask, q_role>>
inputVars == <<input, roles, seed, max_variants, layout, ts>>
pickVars == <<variant_idx, picks>>
genVars == <<tile, bm_idx, k, all_results, global_max, messages, sheet, ron>>
mapVars == <<cell, map_variants, t_num, cumulative, picked, walk_i, pattern, cell_mask, out>>
batchVars == <<inputs, batch_i, log, exit_status>>
vars == <<pc, maskVars, quadVars, inputVars, pickVars, genVars, mapVars, batchVars>>

(***************************************************************************)
(* Bounds of the model.                                                    *)
(***************************************************************************)
MaxCand == 3      \* candidates per role: 1..MaxCand
MaxWeight == 3    \* entry weights: 1..MaxWeight
MaxSeed == 3      \* seeds: -MaxSeed..MaxSeed, and the default seed
MaxCap == 2       \* caps: None, and -1..MaxCap
MaxGenCand == 2   \* candidates per role in the full generation runs

(***************************************************************************)
(* Constants: 8-bit bitmask neighbour directions.                          *)
(***************************************************************************)
N == 1
NE == 2
E == 4
SE == 8
S == 16
SW == 32
W == 64
NW == 128

RAW_RANGE == 256

_ROLE_STRIDE == 7

DEFAULT_SEED == 42

\* The smallest tile size parse_manifest lets through (tile_size < 2 is refused).
MIN_TILE_SIZE == 2

QUADRANT_OFFSETS == <<"TL", "TR", "BL", "BR">>

Quadrants == {QUADRANT_OFFSETS[i] : i \in 1..Len(QUADRANT_OFFSETS)}

QuadrantRule(c1, c2, d, corner, e1, e2, inner) ==
    [cardinal1 |-> c1, cardinal2 |-> c2, diagonal |-> d, corner_tile |-> corner,
     edge_c1_tile |-> e1, edge_c2_tile |-> e2, inner_tile |-> inner]

QUADRANT_RULES ==
    [q \in Quadrants |->
        CASE q = "TL" -> QuadrantRule(N, W, NW, "outer_tl", "outer_left", "outer_top", "inner_d")
          [] q = "TR" -> QuadrantRule(N, E, NE, "outer_tr", "outer_right", "outer_top", "inner_c")
          [] q = "BL" -> QuadrantRule(S, W, SW, "outer_bl", "outer_left", "outer_bottom", "inner_b")
          [] q = "BR" -> QuadrantRule(S, E, SE, "outer_br", "outer_right", "outer_bottom", "inner_a")]

REQUIRED_ROLES ==
    {"center", "outer_tl", "outer_top", "outer_tr", "outer_left", "outer_right",
     "outer_bl", "outer_bottom", "outer_br", "inner_a", "inner_b", "inner_c",
     "inner_d", "single"}

OPTIONAL_ROLES == {"inner_e", "inner_f"}

ALL_VALID_ROLES == REQUIRED_ROLES \cup OPTIONAL_ROLES

\* The role names in the order Python's sorted() gives them.
SortedRoleNames ==
    <<"center", "inner_a", "inner_b", "inner_c", "inner_d", "inner_e", "inner_f",
      "outer_bl", "outer_bottom", "outer_br", "outer_left", "outer_right",
      "outer_tl", "outer_top", "outer_tr", "single">>

(***************************************************************************)
(* Bitmask computation.                                                    *)
(***************************************************************************)
\* m & bit, as a truth value (bit is a power of two, m >= 0).
HasBit(m, bit) == (m \div bit) % 2 = 1

\* m & ~bit
ClearBit(m, bit) == IF HasBit(m, bit) THEN m - bit ELSE m

\* A plausible slip: the first branch clears E instead of NE.
reduce_bitmask_wrong_bit(raw_) ==
    LET r1 == IF ~(HasBit(raw_, N) /\ HasBit(raw_, E)) THEN ClearBit(raw_, E) ELSE raw_
        r2 == IF ~(HasBit(raw_, S) /\ HasBit(raw_, E)) THEN ClearBit(r1, SE) ELSE r1
        r3 == IF ~(HasBit(raw_, S) /\ HasBit(raw_, W)) THEN ClearBit(r2, SW) ELSE r2
        r4 == IF ~(HasBit(raw_, N) /\ HasBit(raw_, W)) THEN ClearBit(r3, NW) ELSE r3
    IN r4

\* A plausible slip: NW is tested against N and E instead of N and W.
reduce_bitmask_wrong_cardinal(raw_) ==
    LET r1 == IF ~(HasBit(raw_, N) /\ HasBit(raw_, E)) THEN ClearBit(raw_, NE) ELSE raw_
        r2 == IF ~(HasBit(raw_, S) /\ HasBit(raw_, E)) THEN ClearBit(r1, SE) ELSE r1
        r3 == IF ~(HasBit(raw_, S) /\ HasBit(raw_, W)) THEN ClearBit(r2, SW) ELSE r2
        r4 == IF ~(HasBit(raw_, N) /\ HasBit(raw_, E)) THEN ClearBit(r3, NW) ELSE r3
    IN r4

\* A plausible slip: "and" written as "or", a diagonal survives beside one cardinal.
reduce_bitmask_either_cardinal(raw_) ==
    LET r1 == IF ~(HasBit(raw_, N) \/ HasBit(raw_, E)) THEN ClearBit(raw_, NE) ELSE raw_
        r2 == IF ~(HasBit(raw_, S) \/ HasBit(raw_, E)) THEN ClearBit(r1, SE) ELSE r1
        r3 == IF ~(HasBit(raw_, S) \/ HasBit(raw_, W)) THEN ClearBit(r2, SW) ELSE r2
        r4 == IF ~(HasBit(raw_, N) \/ HasBit(raw_, W)) THEN ClearBit(r3, NW) ELSE r3
    IN r4

reduce_bitmask(raw_) ==
    LET r1 == IF ~(HasBit(raw_, N) /\ HasBit(raw_, E)) THEN ClearBit(raw_, NE) ELSE raw_
        r2 == IF ~(HasBit(raw_, S) /\ HasBit(raw_, E)) THEN ClearBit(r1, SE) ELSE r1
        r3 == IF ~(HasBit(raw_, S) /\ HasBit(raw_, W)) THEN ClearBit(r2, SW) ELSE r2
        r4 == IF ~(HasBit(raw_, N) /\ HasBit(raw_, W)) THEN ClearBit(r3, NW) ELSE r3
    IN r4

\* Python's sorted() of a set of integers.
sorted(set) ==
    [i \in 1..Cardinality(set) |->
        CHOOSE x \in set : Cardinality({y \in set : y < x}) = i - 1]

EXPECTED_BITMASKS == 47

(***************************************************************************)
(* Idle values of the variables an operation does not use.                 *)
(***************************************************************************)
MaskIdle == raw = 0 /\ unique = {} /\ reduced = <<>> /\ bitmasks = <<>>
QuadIdle == quadrant = "TL" /\ mask = 0 /\ q_role = <<>>
InputIdle ==
    /\ input = <<>> /\ roles = <<>> /\ seed = 0 /\ max_variants = <<>>
    /\ layout = "variants_y" /\ ts = 0
PickIdle == variant_idx = 0 /\ picks = <<>>
MapIdle ==
    /\ cell = <<>> /\ map_variants = <<>> /\ t_num = <<>> /\ cumulative = 0
    /\ picked = <<>> /\ walk_i = 0
    /\ pattern = <<>> /\ cell_mask = 0 /\ out = {}
BatchIdle == inputs = <<>> /\ batch_i = 0 /\ log = <<>> /\ exit_status = <<>>
GenIdle ==
    /\ tile = <<>> /\ bm_idx = 0 /\ k = 0 /\ all_results = <<>> /\ global_max = 0
    /\ messages = <<>> /\ sheet = <<>> /\ ron = <<>>

(***************************************************************************)
(* compute_47_bitmasks, one raw value of the comprehension per step.       *)
(***************************************************************************)
ReduceStep ==
    /\ pc = "reduce"
    /\ raw < RAW_RANGE
    /\ unique' = unique \cup {reduce_bitmask(raw)}
    /\ reduced' = (raw :> reduce_bitmask(raw)) @@ reduced
    /\ raw' = raw + 1
    /\ UNCHANGED <<mapVars, batchVars, pc, bitmasks, quadVars, inputVars, pickVars, genVars>>

SortStep ==
    /\ pc = "reduce"
    /\ raw = RAW_RANGE
    /\ LET result == sorted(unique)
       IN IF Len(result) /= EXPECTED_BITMASKS
          THEN pc' = "RuntimeError" /\ UNCHANGED bitmasks
          ELSE pc' = "returned" /\ bitmasks' = result
    /\ UNCHANGED <<mapVars, batchVars, raw, unique, reduced, quadVars, inputVars, pickVars, genVars>>

InitMask ==
    /\ pc = "reduce"
    /\ MaskIdle /\ QuadIdle /\ InputIdle /\ PickIdle /\ GenIdle
    /\ MapIdle /\ BatchIdle

NextMask == ReduceStep \/ SortStep

SpecMask == InitMask /\ [][NextMask]_vars

(***************************************************************************)
(* Quadrant role resolution.                                               *)
(***************************************************************************)
\* A plausible slip: the two edge roles of the rule are swapped.
_get_quadrant_role_swapped_edges(quadrant_, mask_) ==
    LET rule == QUADRANT_RULES[quadrant_]
        has_c1 == HasBit(mask_, rule.cardinal1)
        has_c2 == HasBit(mask_, rule.cardinal2)
        has_diag == HasBit(mask_, rule.diagonal)
    IN IF ~has_c1 /\ ~has_c2 THEN <<rule.corner_tile, FALSE>>
       ELSE IF has_c1 /\ ~has_c2 THEN <<rule.edge_c2_tile, FALSE>>
       ELSE IF ~has_c1 /\ has_c2 THEN <<rule.edge_c1_tile, FALSE>>
       ELSE IF has_c1 /\ has_c2 /\ ~has_diag THEN <<rule.inner_tile, TRUE>>
       ELSE <<"center", FALSE>>

_get_quadrant_role(quadrant_, mask_) ==
    LET rule == QUADRANT_RULES[quadrant_]
        has_c1 == HasBit(mask_, rule.cardinal1)
        has_c2 == HasBit(mask_, rule.cardinal2)
        has_diag == HasBit(mask_, rule.diagonal)
    IN IF ~has_c1 /\ ~has_c2 THEN <<rule.corner_tile, FALSE>>
       ELSE IF has_c1 /\ ~has_c2 THEN <<rule.edge_c1_tile, FALSE>>
       ELSE IF ~has_c1 /\ has_c2 THEN <<rule.edge_c2_tile, FALSE>>
       ELSE IF has_c1 /\ has_c2 /\ ~has_diag THEN <<rule.inner_tile, TRUE>>
       ELSE <<"center", FALSE>>

\* _get_quadrant_role applied to one (quadrant, mask).
Resolve ==
    /\ pc = "resolve"
    /\ q_role' = _get_quadrant_role(quadrant, mask)
    /\ pc' = "resolved"
    /\ UNCHANGED <<mapVars, batchVars, quadrant, mask, maskVars, inputVars, pickVars, genVars>>

InitQuadrant ==
    /\ pc = "resolve"
    /\ quadrant \in Quadrants
    /\ mask \in 0..(RAW_RANGE - 1)
    /\ q_role = <<>>
    /\ MaskIdle /\ InputIdle /\ PickIdle /\ GenIdle
    /\ MapIdle /\ BatchIdle

NextQuadrant == Resolve

SpecQuadrant == InitQuadrant /\ [][NextQuadrant]_vars

(***************************************************************************)
(* The role table (RoleVariants) and the command-line inputs.              *)
(***************************************************************************)
\* One source image variant for a role; file is its position in the
\* manifest's list for the role, which also stands for its pixels.
SourceEntry(role_, file_, weight_) == [role |-> role_, file |-> file_, weight |-> weight_]

\* Position of a role name in Python's string order.
RoleOrder(r) == CHOOSE i \in 1..Len(SortedRoleNames) : SortedRoleNames[i] = r

\* The weight a manifest gives a source: any value > 0; here 1..MaxWeight,
\* spread over the roles and entries by wshift.
ManifestWeight(r, j, wshift) == ((RoleOrder(r) + j + wshift) % MaxWeight) + 1

\* The table load_sources returns: count[r] entries for each role present.
load_sources(present, count, wshift) ==
    [r \in present |->
        [j \in 1..count[r] |-> SourceEntry(r, j, ManifestWeight(r, j, wshift))]]

\* Role tables in which at most two roles have more than one candidate.
TwoRoleTables ==
    {load_sources(REQUIRED_ROLES \cup t[1],
                  [r \in ALL_VALID_ROLES |->
                      IF r = t[2] THEN t[3] ELSE IF r = t[4] THEN t[5] ELSE 1],
                  0) :
        t \in {u \in (SUBSET OPTIONAL_ROLES) \X ALL_VALID_ROLES \X (1..MaxCand)
                        \X ALL_VALID_ROLES \X (1..MaxCand) :
                  RoleOrder(u[2]) <= RoleOrder(u[4])}}

\* --seed: any integer; here a range around 0 and the default.
Seeds == ((0 - MaxSeed)..MaxSeed) \cup {DEFAULT_SEED}

(***************************************************************************)
(* Variant selection.                                                      *)
(***************************************************************************)
\* sorted(roles.items()): the role names present, in string order.
SortedPresent(roles_) ==
    LET Present(r) == r \in DOMAIN roles_
    IN SelectSeq(SortedRoleNames, Present)

\* The index enumerate() gives a role, from 0.
EnumIndex(roles_, r) ==
    LET sp == SortedPresent(roles_)
    IN (CHOOSE i \in 1..Len(sp) : sp[i] = r) - 1

\* A plausible slip: the draw index is left out of the pick.
_pick_per_role_no_draw(roles_, variant_idx_, seed_) ==
    [r \in DOMAIN roles_ |->
        LET variants == roles_[r]
            i == EnumIndex(roles_, r)
        IN IF Len(variants) = 1 THEN variants[1]
           ELSE LET offset == (seed_ + i * _ROLE_STRIDE) % Len(variants)
                IN variants[offset + 1]]

\* A plausible slip: the rank is taken in a fixed list of all role names
\* instead of the roles present.
_pick_per_role_fixed_rank(roles_, variant_idx_, seed_) ==
    [r \in DOMAIN roles_ |->
        LET variants == roles_[r]
            i == RoleOrder(r) - 1
        IN IF Len(variants) = 1 THEN variants[1]
           ELSE LET offset == (seed_ + i * _ROLE_STRIDE) % Len(variants)
                    idx == (variant_idx_ + offset) % Len(variants)
                IN variants[idx + 1]]

\* A plausible slip: the seed is left out of the offset.
_pick_per_role_no_seed(roles_, variant_idx_, seed_) ==
    [r \in DOMAIN roles_ |->
        LET variants == roles_[r]
            i == EnumIndex(roles_, r)
        IN IF Len(variants) = 1 THEN variants[1]
           ELSE LET offset == (i * _ROLE_STRIDE) % Len(variants)
                    idx == (variant_idx_ + offset) % Len(variants)
                IN variants[idx + 1]]

_pick_per_role(roles_, variant_idx_, seed_) ==
    [r \in DOMAIN roles_ |->
        LET variants == roles_[r]
            i == EnumIndex(roles_, r)
        IN IF Len(variants) = 1 THEN variants[1]
           ELSE LET offset == (seed_ + i * _ROLE_STRIDE) % Len(variants)
                    idx == (variant_idx_ + offset) % Len(variants)
                IN variants[idx + 1]]

\* _pick_per_role at the next draw index, as range(k) of
\* generate_all_variants calls it (k is at most the largest candidate count).
Pick ==
    /\ pc = "pick"
    /\ variant_idx < MaxCand
    /\ picks' = Append(picks, _pick_per_role(roles, variant_idx, seed))
    /\ variant_idx' = variant_idx + 1
    /\ UNCHANGED <<mapVars, batchVars, pc, maskVars, quadVars, inputVars, genVars>>

InitPick ==
    /\ pc = "pick"
    /\ roles \in TwoRoleTables
    /\ seed \in Seeds
    /\ max_variants = <<>>
    /\ layout = "variants_y"
    /\ ts = MIN_TILE_SIZE
    /\ input = <<>>
    /\ PickIdle
    /\ MaskIdle /\ QuadIdle /\ GenIdle
    /\ MapIdle /\ BatchIdle

NextPick == Pick

SpecPick == InitPick /\ [][NextPick]_vars

(***************************************************************************)
(* Quadrant helpers.  A tile's pixels are its four quadrants, each a       *)
(* square of side half = ts // 2, and, when ts is odd, the rim: the last   *)
(* row and column, which no quadrant reaches.  A quadrant's pixels are the *)
(* sub-quadrant of the source entry they were cropped from, over the       *)
(* centre sub-quadrant they were composited on, if any.  (A tile of one    *)
(* pixel, whose quadrants are empty, is not modelled.)                     *)
(***************************************************************************)
Parts == Quadrants \cup {"rim"}

\* The rim of a buffer of side ts_: nothing when ts_ is even.
Rim(ts_, content) == IF ts_ % 2 = 0 THEN <<>> ELSE content

\* The pixels of a source entry: its own four quadrants and its own rim.
EntryImage(entry, ts_) ==
    [p \in Parts |->
        IF p = "rim" THEN Rim(ts_, <<entry.role, entry.file, "rim">>)
        ELSE [fg |-> <<entry.role, entry.file, p>>, bg |-> <<>>]]

\* Image.new("RGBA", (ts, ts), (0, 0, 0, 0)) with the four quadrants pasted.
PastedImage(quads, ts_) ==
    [p \in Parts |-> IF p = "rim" THEN Rim(ts_, <<"transparent">>) ELSE quads[p]]

\* tile.crop of the half x half square at the quadrant's offset.
extract_quadrant(tile_, quadrant_, ts_) == tile_[quadrant_]

\* A plausible slip: the two flips are taken on each other's axis.
_mirror_quadrant_crossed(quadrant_, has_c1, has_c2) ==
    LET row0 == IF quadrant_ \in {"TL", "TR"} THEN "T" ELSE "B"
        col0 == IF quadrant_ \in {"TL", "BL"} THEN "L" ELSE "R"
        row == IF ~has_c2 THEN (IF row0 = "T" THEN "B" ELSE "T") ELSE row0
        col == IF ~has_c1 THEN (IF col0 = "L" THEN "R" ELSE "L") ELSE col0
    IN CASE row = "T" /\ col = "L" -> "TL"
         [] row = "T" /\ col = "R" -> "TR"
         [] row = "B" /\ col = "L" -> "BL"
         [] row = "B" /\ col = "R" -> "BR"

_mirror_quadrant(quadrant_, has_c1, has_c2) ==
    LET row0 == IF quadrant_ \in {"TL", "TR"} THEN "T" ELSE "B"
        col0 == IF quadrant_ \in {"TL", "BL"} THEN "L" ELSE "R"
        row == IF ~has_c1 THEN (IF row0 = "T" THEN "B" ELSE "T") ELSE row0
        col == IF ~has_c2 THEN (IF col0 = "L" THEN "R" ELSE "L") ELSE col0
    IN CASE row = "T" /\ col = "L" -> "TL"
         [] row = "T" /\ col = "R" -> "TR"
         [] row = "B" /\ col = "L" -> "BL"
         [] row = "B" /\ col = "R" -> "BR"

\* Porter-Duff over of two quadrant crops.
_alpha_composite(fg_, bg_) == [fg |-> fg_.fg, bg |-> <<bg_.fg>>]

(***************************************************************************)
(* Variant generation.                                                     *)
(***************************************************************************)
\* A plausible slip: the centre under a composited quadrant is not collected.
_get_roles_for_bitmask_no_center(mask_, roles_) ==
    IF mask_ = 0 THEN {"single"}
    ELSE IF mask_ = 85 /\ "inner_e" \in DOMAIN roles_ /\ "inner_f" \in DOMAIN roles_
         THEN {"inner_e", "inner_f", "center"}
    ELSE {_get_quadrant_role(q, mask_)[1] : q \in Quadrants}

\* A plausible slip: the special path of mask 85 is counted when either of
\* the two optional roles is present.
_get_roles_for_bitmask_either_optional(mask_, roles_) ==
    IF mask_ = 0 THEN {"single"}
    ELSE IF mask_ = 85 /\ ("inner_e" \in DOMAIN roles_ \/ "inner_f" \in DOMAIN roles_)
         THEN {"inner_e", "inner_f", "center"}
    ELSE UNION {LET rr == _get_quadrant_role(q, mask_)
                IN IF rr[2] THEN {rr[1], "center"} ELSE {rr[1]} : q \in Quadrants}

_get_roles_for_bitmask(mask_, roles_) ==
    IF mask_ = 0 THEN {"single"}
    ELSE IF mask_ = 85 /\ "inner_e" \in DOMAIN roles_ /\ "inner_f" \in DOMAIN roles_
         THEN {"inner_e", "inner_f", "center"}
    ELSE UNION {LET rr == _get_quadrant_role(q, mask_)
                IN IF rr[2] THEN {rr[1], "center"} ELSE {rr[1]} : q \in Quadrants}

\* max() and min() of Python, on a non-empty set and on two integers.
MaxOf(set) == CHOOSE x \in set : \A y \in set : y <= x
Min2(a, b) == IF a <= b THEN a ELSE b
Max2(a, b) == IF a >= b THEN a ELSE b

\* A plausible slip: the floor of one variant per mask is left out.
_variant_count_for_mask_no_floor(mask_, roles_, max_variants_) ==
    LET used == _get_roles_for_bitmask(mask_, roles_)
        counts == {Len(roles_[r]) : r \in used \cap DOMAIN roles_}
        k0 == IF counts /= {} THEN MaxOf(counts) ELSE 1
    IN IF max_variants_ /= <<>> THEN Min2(k0, max_variants_[1]) ELSE k0

_variant_count_for_mask(mask_, roles_, max_variants_) ==
    LET used == _get_roles_for_bitmask(mask_, roles_)
        counts == {Len(roles_[r]) : r \in used \cap DOMAIN roles_}
        k0 == IF counts /= {} THEN MaxOf(counts) ELSE 1
        k1 == IF max_variants_ /= <<>> THEN Min2(k0, max_variants_[1]) ELSE k0
    IN Max2(1, k1)

\* A plausible slip: the centre entry under an inner notch is counted too.
_compose_quadrant_counts_center(quadrant_, mask_, chosen, ts_) ==
    LET rule == QUADRANT_RULES[quadrant_]
        has_c1 == HasBit(mask_, rule.cardinal1)
        has_c2 == HasBit(mask_, rule.cardinal2)
        rr == _get_quadrant_role(quadrant_, mask_)
        source == chosen[rr[1]]
        src_q == _mirror_quadrant(quadrant_, has_c1, has_c2)
        quad_img == extract_quadrant(EntryImage(source, ts_), src_q, ts_)
    IN IF rr[2]
       THEN <<_alpha_composite(quad_img,
                               extract_quadrant(EntryImage(chosen["center"], ts_), src_q, ts_)),
              source.weight * chosen["center"].weight>>
       ELSE <<quad_img, source.weight>>

_compose_quadrant(quadrant_, mask_, chosen, ts_) ==
    LET rule == QUADRANT_RULES[quadrant_]
        has_c1 == HasBit(mask_, rule.cardinal1)
        has_c2 == HasBit(mask_, rule.cardinal2)
        rr == _get_quadrant_role(quadrant_, mask_)
        source == chosen[rr[1]]
        src_q == _mirror_quadrant(quadrant_, has_c1, has_c2)
        quad_img == extract_quadrant(EntryImage(source, ts_), src_q, ts_)
    IN IF rr[2]
       THEN <<_alpha_composite(quad_img,
                               extract_quadrant(EntryImage(chosen["center"], ts_), src_q, ts_)),
              source.weight>>
       ELSE <<quad_img, source.weight>>

\* weight = 1.0, then weight *= w for each quadrant in turn.
RECURSIVE WeightProduct(_, _)
WeightProduct(ws, n) == IF n = 0 THEN 1 ELSE WeightProduct(ws, n - 1) * ws[n]

\* quad_map of _compose_bitmask85: output quadrant -> (source role, quadrant).
Bitmask85QuadMap(q) ==
    CASE q = "TL" -> <<"inner_e", "TL">>
      [] q = "TR" -> <<"inner_f", "TR">>
      [] q = "BL" -> <<"inner_f", "BL">>
      [] q = "BR" -> <<"inner_e", "BR">>

\* A plausible slip: each of the two entries is counted once, not per quadrant.
_compose_bitmask85_once_each(chosen, ts_) ==
    LET Composited(q) ==
            _alpha_composite(
                extract_quadrant(EntryImage(chosen[Bitmask85QuadMap(q)[1]], ts_),
                                 Bitmask85QuadMap(q)[2], ts_),
                extract_quadrant(EntryImage(chosen["center"], ts_), q, ts_))
    IN <<PastedImage([q \in Quadrants |-> Composited(q)], ts_),
         chosen["inner_e"].weight * chosen["inner_f"].weight>>

_compose_bitmask85(chosen, ts_) ==
    LET Composited(q) ==
            _alpha_composite(
                extract_quadrant(EntryImage(chosen[Bitmask85QuadMap(q)[1]], ts_),
                                 Bitmask85QuadMap(q)[2], ts_),
                extract_quadrant(EntryImage(chosen["center"], ts_), q, ts_))
        ws == [i \in 1..Len(QUADRANT_OFFSETS) |->
                  chosen[Bitmask85QuadMap(QUADRANT_OFFSETS[i])[1]].weight]
    IN <<PastedImage([q \in Quadrants |-> Composited(q)], ts_), WeightProduct(ws, Len(ws))>>

TileVariant(image_, weight_) == [image |-> image_, weight |-> weight_]

_generate_single_variant(mask_, roles_, variant_idx_, seed_, ts_) ==
    LET chosen == _pick_per_role(roles_, variant_idx_, seed_)
    IN IF mask_ = 0
       THEN TileVariant(EntryImage(chosen["single"], ts_), chosen["single"].weight)
       ELSE IF mask_ = 85 /\ "inner_e" \in DOMAIN chosen /\ "inner_f" \in DOMAIN chosen
       THEN LET r85 == _compose_bitmask85(chosen, ts_)
            IN TileVariant(r85[1], r85[2])
       ELSE LET quads == [q \in Quadrants |-> _compose_quadrant(q, mask_, chosen, ts_)]
                ws == [i \in 1..Len(QUADRANT_OFFSETS) |-> quads[QUADRANT_OFFSETS[i]][2]]
            IN TileVariant(PastedImage([q \in Quadrants |-> quads[q][1]], ts_),
                           WeightProduct(ws, Len(ws)))

\* The 47 canonical masks, as compute_47_bitmasks returns them.
compute_47_bitmasks == sorted({reduce_bitmask(m) : m \in 0..(RAW_RANGE - 1)})

\* Role tables in which the candidate count is the same within each class
\* of roles: center, the inner corners, and the outer roles with single.
ClassOf(r) ==
    IF r = "center" THEN 1
    ELSE IF r \in {"inner_a", "inner_b", "inner_c", "inner_d", "inner_e", "inner_f"} THEN 2
    ELSE 3

ClassTablesFor(most, wshifts) ==
    {load_sources(REQUIRED_ROLES \cup t[1],
                  [r \in ALL_VALID_ROLES |-> t[2][ClassOf(r)]],
                  t[3]) :
        t \in (SUBSET OPTIONAL_ROLES) \X [1..3 -> 1..most] \X wshifts}

ClassTables == ClassTablesFor(MaxCand, 0..(MaxWeight - 1))

\* Seeds of the generation runs.
GenSeeds == {0, DEFAULT_SEED}

\* _generate_single_variant applied to one (mask, roles, variant_idx, seed).
Compose ==
    /\ pc = "compose"
    /\ tile' = _generate_single_variant(mask, roles, variant_idx, seed, ts)
    /\ pc' = "composed"
    /\ UNCHANGED <<mapVars, batchVars, maskVars, quadVars, inputVars, pickVars, bm_idx, k, all_results, global_max,
                   messages, sheet, ron>>

InitCompose ==
    /\ pc = "compose"
    /\ roles \in ClassTables
    /\ seed \in GenSeeds
    /\ max_variants = <<>>
    /\ layout = "variants_y"
    /\ ts = MIN_TILE_SIZE
    /\ input = <<>>
    /\ bitmasks = compute_47_bitmasks
    /\ raw = 0 /\ unique = {} /\ reduced = <<>>
    /\ mask \in {bitmasks[i] : i \in 1..Len(bitmasks)}
    /\ quadrant = "TL" /\ q_role = <<>>
    /\ variant_idx \in 0..(MaxCand - 1)
    /\ picks = <<>>
    /\ GenIdle
    /\ MapIdle /\ BatchIdle

NextCompose == Compose

SpecCompose == InitCompose /\ [][NextCompose]_vars

(***************************************************************************)
(* The variant set builder and the index, as process_single runs them.     *)
(***************************************************************************)
\* round(w / total_w, 6), in millionths: the nearest millionth, an exact
\* half going to the even neighbour.  (Python rounds the double w / total_w;
\* the two agree unless w / total_w is an exact half that no double holds,
\* which needs total_w to be a multiple of 640.)
Round6(w, total_w) ==
    LET num == w * 1000000
        q == num \div total_w
        r == num % total_w
    IN IF 2 * r < total_w THEN q
       ELSE IF 2 * r > total_w THEN q + 1
       ELSE IF q % 2 = 0 THEN q ELSE q + 1

RECURSIVE SumWeights(_, _)
SumWeights(variants, n) ==
    IF n = 0 THEN 0 ELSE SumWeights(variants, n - 1) + variants[n].weight

\* --max-variants: None or any integer; here None and -1..MaxCap.
Caps == {<<>>} \cup {<<c>> : c \in (0 - 1)..MaxCap}

Layouts == {"variants_y", "variants_x"}

\* process_single: bitmasks = compute_47_bitmasks().
ComputeBitmasks ==
    /\ pc = "start"
    /\ LET result == compute_47_bitmasks
       IN IF Len(result) /= EXPECTED_BITMASKS
          THEN pc' = "RuntimeError" /\ UNCHANGED bitmasks
          ELSE pc' = "generate" /\ bitmasks' = result
    /\ UNCHANGED <<mapVars, batchVars, raw, unique, reduced, quadVars, inputVars, pickVars, genVars>>

\* generate_all_variants: the k_ variants of one mask, drawn at indices
\* 0..k_-1 in turn, their weights normalised.
VariantsOfMask(mask_, k_, roles_, seed_, ts_) ==
    LET variants == [vi \in 1..k_ |->
                        _generate_single_variant(mask_, roles_, vi - 1, seed_, ts_)]
        total_w == SumWeights(variants, Len(variants))
    IN IF total_w > 0
       THEN [vi \in 1..k_ |->
                TileVariant(variants[vi].image, Round6(variants[vi].weight, total_w))]
       ELSE [vi \in 1..k_ |->
                TileVariant(variants[vi].image, variants[vi].weight * 1000000)]

\* generate_all_variants: one pass of "for mask in bitmasks", with the
\* normalisation of the weights of the mask; the last pass returns.
GenerateMask ==
    /\ pc = "generate"
    /\ bm_idx < Len(bitmasks)
    /\ LET mask_ == bitmasks[bm_idx + 1]
           k_ == _variant_count_for_mask(mask_, roles, max_variants)
       IN /\ global_max' = Max2(global_max, k_)
          /\ all_results' = (mask_ :> VariantsOfMask(mask_, k_, roles, seed, ts)) @@ all_results
    /\ bm_idx' = bm_idx + 1
    /\ pc' = IF bm_idx + 1 = Len(bitmasks) THEN "generated" ELSE "generate"
    /\ UNCHANGED <<mapVars, batchVars, maskVars, quadVars, inputVars, pickVars, tile, k, messages, sheet, ron>>

\* The direction names of describe_bitmask, in its order.
DirectionNames ==
    <<<<"N", N>>, <<"NE", NE>>, <<"E", E>>, <<"SE", SE>>,
      <<"S", S>>, <<"SW", SW>>, <<"W", W>>, <<"NW", NW>>>>

\* The names describe_bitmask joins with "+", or "isolated".
describe_bitmask(mask_) ==
    LET Set(p) == HasBit(mask_, p[2])
        names == SelectSeq(DirectionNames, Set)
    IN IF names /= <<>> THEN [i \in 1..Len(names) |-> names[i][1]] ELSE <<"isolated">>

\* A plausible slip: the layout is not looked at.
_atlas_dims_ignores_layout(bitmasks_, actual_max, layout_) ==
    <<actual_max, Len(bitmasks_)>>

_atlas_dims(bitmasks_, actual_max, layout_) ==
    IF layout_ = "variants_x" THEN <<Len(bitmasks_), actual_max>>
    ELSE <<actual_max, Len(bitmasks_)>>

generate_ron_mapping(all_variants, bitmasks_, ts_, actual_max, layout_) ==
    LET dims == _atlas_dims(bitmasks_, actual_max, layout_)
        Cell(bm, vi) == IF layout_ = "variants_x" THEN <<bm, vi>> ELSE <<vi, bm>>
    IN [tile_size |-> ts_,
        atlas_columns |-> dims[1],
        atlas_rows |-> dims[2],
        tiles |->
            [b \in 1..Len(bitmasks_) |->
                [mask |-> bitmasks_[b],
                 description |-> describe_bitmask(bitmasks_[b]),
                 variants |->
                     [v \in 1..Len(all_variants[bitmasks_[b]]) |->
                         [index |-> v - 1,
                          col |-> Cell(b - 1, v - 1)[1],
                          row |-> Cell(b - 1, v - 1)[2],
                          weight |-> all_variants[bitmasks_[b]][v].weight]]]]]

\* img_a.tobytes() == img_b.tobytes() for two buffers of the same size.
SameBytes(image_a, image_b) == image_a = image_b

\* The messages of verify_output about masks 255 and 0.  (Its third message,
\* about fully transparent tiles, depends on alpha values, which the model
\* does not hold, and is left out.)
verify_output(all_variants, roles_, ts_) ==
    LET m255 ==
            IF 255 \in DOMAIN all_variants /\ all_variants[255] /= <<>>
               /\ Len(roles_["center"]) = 1
            THEN IF SameBytes(all_variants[255][1].image, EntryImage(roles_["center"][1], ts_))
                 THEN <<"bitmask 255 (variant 0) matches CENTER">>
                 ELSE <<"bitmask 255 differs from CENTER">>
            ELSE <<>>
        m0 ==
            IF 0 \in DOMAIN all_variants /\ all_variants[0] /= <<>>
               /\ Len(roles_["single"]) = 1
            THEN IF SameBytes(all_variants[0][1].image, EntryImage(roles_["single"][1], ts_))
                 THEN <<"bitmask 0 (variant 0) matches SINGLE">>
                 ELSE <<"bitmask 0 differs from SINGLE">>
            ELSE <<>>
    IN m255 \o m0

\* process_single: the self-check of the generated variant set.
VerifyOutput ==
    /\ pc = "generated"
    /\ messages' = verify_output(all_results, roles, ts)
    /\ pc' = "verified"
    /\ UNCHANGED <<mapVars, batchVars, maskVars, quadVars, inputVars, pickVars,
                   tile, bm_idx, k, all_results, global_max, sheet, ron>>

\* A plausible slip: the canvas is transposed but the cells are not.
layout_spritesheet_untransposed(all_variants, bitmasks_, ts_, actual_max, layout_) ==
    LET cols == IF layout_ = "variants_x" THEN Len(bitmasks_) ELSE actual_max
        rows == IF layout_ = "variants_x" THEN actual_max ELSE Len(bitmasks_)
        pastes == {<<b, v>> \in (1..Len(bitmasks_)) \X (1..actual_max) :
                      v <= Len(all_variants[bitmasks_[b]])}
        At(p) == <<(p[2] - 1) * ts_, (p[1] - 1) * ts_>>
    IN [width |-> cols * ts_,
        height |-> rows * ts_,
        pasted |-> [xy \in {At(p) : p \in pastes} |->
                       LET p == CHOOSE o \in pastes : At(o) = xy
                       IN all_variants[bitmasks_[p[1]]][p[2]].image]]

\* The atlas image: its size in pixels and, for every pixel offset something
\* was pasted at, the buffer pasted there last.
layout_spritesheet(all_variants, bitmasks_, ts_, actual_max, layout_) ==
    LET cols == IF layout_ = "variants_x" THEN Len(bitmasks_) ELSE actual_max
        rows == IF layout_ = "variants_x" THEN actual_max ELSE Len(bitmasks_)
        pastes == {<<b, v>> \in (1..Len(bitmasks_)) \X (1..actual_max) :
                      v <= Len(all_variants[bitmasks_[b]])}
        At(p) == IF layout_ = "variants_x"
                 THEN <<(p[1] - 1) * ts_, (p[2] - 1) * ts_>>
                 ELSE <<(p[2] - 1) * ts_, (p[1] - 1) * ts_>>
        Last(xy) == CHOOSE p \in pastes :
                        /\ At(p) = xy
                        /\ \A o \in pastes :
                               At(o) = xy => (o[1] < p[1] \/ (o[1] = p[1] /\ o[2] <= p[2]))
    IN [width |-> cols * ts_,
        height |-> rows * ts_,
        pasted |-> [xy \in {At(p) : p \in pastes} |->
                       all_variants[bitmasks_[Last(xy)[1]]][Last(xy)[2]].image]]

\* process_single: the spritesheet of the generated variant set.  (--layout
\* is an argument of the run; nothing reads it before this step, so it is
\* drawn here.)
LayoutSpritesheet(layout_) ==
    /\ pc = "verified"
    /\ layout' = layout_
    /\ sheet' = layout_spritesheet(all_results, bitmasks, ts, global_max, layout_)
    /\ pc' = "laid_out"
    /\ UNCHANGED <<mapVars, batchVars, maskVars, quadVars, input, roles, seed, max_variants, ts, pickVars,
                   tile, bm_idx, k, all_results, global_max, messages, ron>>

\* process_single: the RON mapping of the generated variant set.
GenerateRon ==
    /\ pc = "laid_out"
    /\ ron' = generate_ron_mapping(all_results, bitmasks, ts, global_max, layout)
    /\ pc' = "done"
    /\ UNCHANGED <<mapVars, batchVars, maskVars, quadVars, inputVars, pickVars,
                   tile, bm_idx, k, all_results, global_max, messages, sheet>>

\* The orders in which a run may visit the elements of a set of role names
\* (the iteration order of a Python set of strings differs from run to run).
IterationOrders(set) ==
    {order \in [1..Cardinality(set) -> set] :
        \A i, j \in 1..Cardinality(set) : order[i] = order[j] => i = j}

\* A plausible slip: the count of the role visited first, not the largest.
_variant_count_iterating_first(order, roles_, max_variants_) ==
    LET InTable(r) == r \in DOMAIN roles_
        present == SelectSeq(order, InTable)
        counts == [i \in 1..Len(present) |-> Len(roles_[present[i]])]
        k0 == IF counts /= <<>> THEN counts[1] ELSE 1
        k1 == IF max_variants_ /= <<>> THEN Min2(k0, max_variants_[1]) ELSE k0
    IN Max2(1, k1)

\* _variant_count_for_mask, the set used being visited in the given order.
_variant_count_iterating(order, roles_, max_variants_) ==
    LET InTable(r) == r \in DOMAIN roles_
        present == SelectSeq(order, InTable)
        counts == [i \in 1..Len(present) |-> Len(roles_[present[i]])]
        k0 == IF counts /= <<>> THEN MaxOf({counts[i] : i \in 1..Len(counts)}) ELSE 1
        k1 == IF max_variants_ /= <<>> THEN Min2(k0, max_variants_[1]) ELSE k0
    IN Max2(1, k1)

\* generate_all_variants: the head of one pass of "for mask in bitmasks",
\* k and global_max.
CountVariants ==
    /\ pc = "generate"
    /\ bm_idx < Len(bitmasks)
    /\ \E order \in IterationOrders(_get_roles_for_bitmask(bitmasks[bm_idx + 1], roles)) :
           k' = _variant_count_iterating(order, roles, max_variants)
    /\ global_max' = Max2(global_max, k')
    /\ pc' = "variants"
    /\ UNCHANGED <<mapVars, batchVars, maskVars, quadVars, inputVars, pickVars,
                   tile, bm_idx, all_results, messages, sheet, ron>>

\* generate_all_variants: the rest of the pass, the k variants of the mask
\* and their normalisation; the last pass returns.
ComposeVariants ==
    /\ pc = "variants"
    /\ all_results' = (bitmasks[bm_idx + 1] :>
                           VariantsOfMask(bitmasks[bm_idx + 1], k, roles, seed, ts))
                      @@ all_results
    /\ bm_idx' = bm_idx + 1
    /\ pc' = IF bm_idx + 1 = Len(bitmasks) THEN "generated" ELSE "generate"
    /\ UNCHANGED <<mapVars, batchVars, maskVars, quadVars, inputVars, pickVars,
                   tile, k, global_max, messages, sheet, ron>>

InitGen ==
    /\ pc = "start"
    /\ roles \in ClassTablesFor(MaxGenCand, {0})
    /\ seed \in GenSeeds
    /\ max_variants \in Caps
    /\ layout = "variants_y"
    /\ ts = MIN_TILE_SIZE
    /\ input = <<>>
    /\ MaskIdle /\ QuadIdle /\ PickIdle /\ GenIdle
    /\ MapIdle /\ BatchIdle

NextGen ==
    \/ ComputeBitmasks
    \/ GenerateMask
    \/ VerifyOutput
    \/ \E layout_ \in Layouts : LayoutSpritesheet(layout_)
    \/ GenerateRon

SpecGen == InitGen /\ [][NextGen]_vars

(***************************************************************************)
(* The loaders, and runs of process_single from the load step.  An input   *)
(* file is what the loaders read of it: its suffix and, for a manifest,    *)
(* its tile_size, the side of the PNG files it lists, whether they exist,  *)
(* the roles it lists and how many sources each has; for a template,       *)
(* whether it exists, its size in pixels and which optional tiles are not  *)
(* fully transparent.                                                      *)
(***************************************************************************)
MaxTileSize == 4   \* tile sizes and PNG sides: up to MaxTileSize

\* parse_manifest: the tile size, or the error raised.
parse_manifest(file) ==
    IF file.tile_size < 2 \/ file.tile_size % 2 /= 0
    THEN [status |-> "ValueError"]
    ELSE [status |-> "ok", tile_size |-> file.tile_size]

\* The error load_sources raises on the listed sources, "ok" when none.
load_sources_status(file, tile_size) ==
    IF ~file.files_exist THEN "FileNotFoundError"
    ELSE IF file.image_side /= tile_size THEN "ValueError"
    ELSE IF \E r \in REQUIRED_ROLES : r \notin file.present THEN "ValueError"
    ELSE "ok"

\* _load_template_image: the tile size, or the error raised.
_load_template_image(file) ==
    IF ~file.exists THEN [status |-> "FileNotFoundError"]
    ELSE LET tile_size == file.width \div 5
             expected_w == tile_size * 5
             expected_h == tile_size * 4
         IN IF file.width /= expected_w \/ file.height /= expected_h
            THEN [status |-> "ValueError"]
            ELSE [status |-> "ok", tile_size |-> tile_size]

\* load_template_as_roles: one entry of weight 1.0 per tile of the grid, the
\* fully transparent optional tiles skipped.
load_template_as_roles(file) ==
    LET loaded == _load_template_image(file)
    IN IF loaded.status /= "ok" THEN loaded
       ELSE LET table == [r \in REQUIRED_ROLES \cup file.opaque_optional |->
                             <<SourceEntry(r, 1, 1)>>]
            IN IF \E r \in REQUIRED_ROLES : r \notin DOMAIN table
               THEN [status |-> "ValueError"]
               ELSE [status |-> "ok", roles |-> table, ts |-> loaded.tile_size]

\* process_single, "load": the role table and tile size, or the error raised.
LoadInput(file) ==
    IF file.suffix = ".json"
    THEN LET parsed == parse_manifest(file)
         IN IF parsed.status /= "ok" THEN parsed
            ELSE IF load_sources_status(file, parsed.tile_size) /= "ok"
            THEN [status |-> load_sources_status(file, parsed.tile_size)]
            ELSE [status |-> "ok",
                  roles |-> load_sources(file.present, file.count, 0),
                  ts |-> parsed.tile_size]
    ELSE IF file.suffix = ".png" THEN load_template_as_roles(file)
    ELSE [status |-> "ValueError"]

\* The manifests of the model: any tile_size, PNG files of any side, one or
\* two sources for single and for center and one for every other role.
Manifests ==
    {[suffix |-> ".json", tile_size |-> t[1], image_side |-> t[2], files_exist |-> TRUE,
      present |-> ALL_VALID_ROLES,
      count |-> [r \in ALL_VALID_ROLES |->
                    IF r = "single" THEN t[3] ELSE IF r = "center" THEN t[4] ELSE 1]] :
        t \in (0..MaxTileSize) \X (MIN_TILE_SIZE..MaxTileSize) \X (1..2) \X (1..2)}
    \cup
    {[suffix |-> ".json", tile_size |-> MIN_TILE_SIZE, image_side |-> MIN_TILE_SIZE,
      files_exist |-> t[1], present |-> ALL_VALID_ROLES \ t[2],
      count |-> [r \in ALL_VALID_ROLES |-> 1]] :
        t \in BOOLEAN \X {{}, {"inner_e"}, {"single"}, OPTIONAL_ROLES}}

\* The templates of the model: PNG files from 5 * MIN_TILE_SIZE pixels wide.
\* (A narrower one has tiles of one pixel, whose quadrants are empty.)
Templates ==
    {[suffix |-> ".png", exists |-> TRUE, width |-> t[1], height |-> 4 * t[2],
      opaque_optional |-> t[3]] :
        t \in ((5 * MIN_TILE_SIZE)..(5 * MaxTileSize)) \X (MIN_TILE_SIZE..MaxTileSize)
              \X {{}, OPTIONAL_ROLES}}
    \cup
    {[suffix |-> ".png", exists |-> FALSE, width |-> 5 * MIN_TILE_SIZE,
      height |-> 4 * MIN_TILE_SIZE, opaque_optional |-> {}]}

InputFiles == Manifests \cup Templates \cup {[suffix |-> ".txt"]}

\* process_single, "load".
Load ==
    /\ pc = "load"
    /\ LET loaded == LoadInput(input)
       IN IF loaded.status = "ok"
          THEN roles' = loaded.roles /\ ts' = loaded.ts /\ pc' = "start"
          ELSE pc' = loaded.status /\ UNCHANGED <<roles, ts>>
    /\ UNCHANGED <<mapVars, batchVars, maskVars, quadVars, input, seed, max_variants, layout, pickVars, genVars>>

InitLoad ==
    /\ pc = "load"
    /\ input \in InputFiles
    /\ roles = <<>>
    /\ seed = DEFAULT_SEED
    /\ max_variants = <<>>
    /\ layout = "variants_y"
    /\ ts = 0
    /\ MaskIdle /\ QuadIdle /\ PickIdle /\ GenIdle
    /\ MapIdle /\ BatchIdle

NextLoad == Load \/ NextGen

SpecLoad == InitLoad /\ [][NextLoad]_vars

\* Generation runs in which the order of every set iteration is free.
InitRuns ==
    /\ pc = "start"
    /\ roles \in ClassTablesFor(MaxGenCand, {0})
    /\ seed = DEFAULT_SEED
    /\ max_variants \in {<<>>, <<1>>}
    /\ layout = "variants_y"
    /\ ts = MIN_TILE_SIZE
    /\ input = <<>>
    /\ MaskIdle /\ QuadIdle /\ PickIdle /\ GenIdle
    /\ MapIdle /\ BatchIdle

NextRuns ==
    \/ ComputeBitmasks
    \/ CountVariants
    \/ ComposeVariants
    \/ VerifyOutput
    \/ \E layout_ \in Layouts : LayoutSpritesheet(layout_)
    \/ GenerateRon

SpecRuns == InitRuns /\ [][NextRuns]_vars

(***************************************************************************)
(* Generation runs over role tables in which one role has many candidates  *)
(* of freely chosen weights, for the normalisation of the stored weights.  *)
(***************************************************************************)
MaxNormCand == 6  \* candidates of the role with many candidates

\* The weights of the candidates of one role, in ascending order.
AscendingWeights ==
    UNION {{ws \in [1..c -> 1..MaxWeight] : \A i \in 1..(c - 1) : ws[i] <= ws[i + 1]} :
              c \in 1..MaxNormCand}

\* The table load_sources returns when the manifest lists Len(ws) sources
\* of weights ws for the role many and one source for every other role.
ManyOfOneRole(present, many, ws) ==
    [r \in present |->
        IF r = many
        THEN [j \in 1..Len(ws) |-> SourceEntry(r, j, ws[j])]
        ELSE <<SourceEntry(r, 1, ManifestWeight(r, 1, 0))>>]

NormTables ==
    {ManyOfOneRole(REQUIRED_ROLES \cup t[1], t[2], t[3]) :
        t \in {{}, OPTIONAL_ROLES} \X {"single", "center"} \X AscendingWeights}

InitNorm ==
    /\ pc = "start"
    /\ roles \in NormTables
    /\ seed = DEFAULT_SEED
    /\ max_variants = <<>>
    /\ layout = "variants_y"
    /\ ts = MIN_TILE_SIZE
    /\ input = <<>>
    /\ MaskIdle /\ QuadIdle /\ PickIdle /\ GenIdle
    /\ MapIdle /\ BatchIdle

SpecNorm == InitNorm /\ [][NextGen]_vars

(***************************************************************************)
(* Generation runs over role tables in which the center, the four required *)
(* inner corners and each of the two optional inner roles have candidate   *)
(* counts of their own, for the two ways of composing mask 85.             *)
(***************************************************************************)
MaxInnerCand == 2 \* candidates of center and of the inner roles

\* The candidate count of a role: t = <<center, inner_a..inner_d, inner_e,
\* inner_f>>, one candidate for every other role.
InnerCount(r, t) ==
    IF r = "center" THEN t[1]
    ELSE IF r \in {"inner_a", "inner_b", "inner_c", "inner_d"} THEN t[2]
    ELSE IF r = "inner_e" THEN t[3]
    ELSE IF r = "inner_f" THEN t[4]
    ELSE 1

InnerTables ==
    {load_sources(REQUIRED_ROLES \cup u[1],
                  [r \in ALL_VALID_ROLES |-> InnerCount(r, u[2])],
                  0) :
        u \in (SUBSET OPTIONAL_ROLES) \X [1..4 -> 1..MaxInnerCand]}

InitInner ==
    /\ pc = "start"
    /\ roles \in InnerTables
    /\ seed = DEFAULT_SEED
    /\ max_variants = <<>>
    /\ layout = "variants_y"
    /\ ts = MIN_TILE_SIZE
    /\ input = <<>>
    /\ MaskIdle /\ QuadIdle /\ PickIdle /\ GenIdle
    /\ MapIdle /\ BatchIdle

SpecInner == InitInner /\ [][NextGen]_vars

(***************************************************************************)
(* The variant picker of generate_test_map, for one cell.  Python's        *)
(* integers are unbounded; h & 0xFFFFFFFF is computed on the low 32 bits,  *)
(* kept as four bytes.  t = (h & 0xFFFFFFFF) / 0xFFFFFFFF is kept by its   *)
(* numerator, and t < cumulative is decided exactly.                       *)
(***************************************************************************)
_HASH_PRIME_X == 73856093
_HASH_PRIME_Y == 19349663

MaxPos == 15      \* positions: the square 0..MaxPos, and a few far ones

\* The low 32 bits of an integer (two's complement), low byte first.
Bytes(n) ==
    <<n % 256, (n \div 256) % 256, (n \div 65536) % 256, (n \div 16777216) % 256>>

\* 0xFFFFFFFF
HASH_MASK == <<255, 255, 255, 255>>

\* The low 32 bits of a * b.
MulLow32(a, b) ==
    LET s0 == a[1] * b[1]
        s1 == a[1] * b[2] + a[2] * b[1] + (s0 \div 256)
        s2 == a[1] * b[3] + a[2] * b[2] + a[3] * b[1] + (s1 \div 256)
        s3 == a[1] * b[4] + a[2] * b[3] + a[3] * b[2] + a[4] * b[1] + (s2 \div 256)
    IN <<s0 % 256, s1 % 256, s2 % 256, s3 % 256>>

\* a ^ b on bytes and on 32 bits.
XorByte(a, b) ==
    LET Bit(i) == (((a \div (2 ^ i)) % 2) + ((b \div (2 ^ i)) % 2)) % 2
    IN Bit(0) + 2 * Bit(1) + 4 * Bit(2) + 8 * Bit(3)
       + 16 * Bit(4) + 32 * Bit(5) + 64 * Bit(6) + 128 * Bit(7)

Xor32(a, b) == [i \in 1..4 |-> XorByte(a[i], b[i])]

\* ((x * _HASH_PRIME_X) ^ (y * _HASH_PRIME_Y)) & 0xFFFFFFFF
position_hash(x_, y_) ==
    Xor32(MulLow32(Bytes(x_), Bytes(_HASH_PRIME_X)),
          MulLow32(Bytes(y_), Bytes(_HASH_PRIME_Y)))

\* t < cumulative for t = num / 0xFFFFFFFF and cumulative = c millionths:
\* num * 10^6 < c * (2^32 - 1), that is floor((num * 10^6 + c) / 2^32) < c.
ThresholdBelow(num, c) ==
    LET s0 == num[1] * 1000000 + c
        s1 == num[2] * 1000000 + (s0 \div 256)
        s2 == num[3] * 1000000 + (s1 \div 256)
        s3 == num[4] * 1000000 + (s2 \div 256)
    IN (s3 \div 256) < c

\* A plausible slip: the fallback is the last variant of the list.
FallbackVariant_last(variants_) == variants_[Len(variants_)]

\* chosen = variants[0]
FallbackVariant(variants_) == variants_[1]

\* Positions far from the origin; the first hashes to 0xFFFFFFFF, the second
\* to 0xFFFFFFFE.
FarPositions == {<<1195, 544>>, <<2390, 1088>>, <<44, 54>>, <<0 - 32733, 15288>>}

Positions == ((0..MaxPos) \X (0..MaxPos)) \cup FarPositions

\* Normalised variant lists as generate_all_variants stores them, a variant
\* standing for its buffer by its place in the list.
StoredLists ==
    LET Lists(n) ==
            {[i \in 1..n |->
                 TileVariant(i, Round6(ws[i], SumWeights([j \in 1..n |-> [weight |-> ws[j]]], n)))] :
                ws \in [1..n -> 1..MaxWeight]}
    IN UNION {Lists(n) : n \in 1..MaxCand}

\* generate_test_map: the hash of the position and the start of the walk.
HashCell ==
    /\ pc = "hash"
    /\ t_num' = position_hash(cell[1], cell[2])
    /\ cumulative' = 0
    /\ picked' = FallbackVariant(map_variants)
    /\ walk_i' = 0
    /\ pc' = "walk"
    /\ UNCHANGED <<cell, map_variants, pattern, cell_mask, out, batchVars, maskVars, quadVars,
                   inputVars, pickVars, genVars>>

\* generate_test_map: one pass of "for v in variants"; the pass that breaks
\* and the pass that ends the list go on to the paste.
WalkVariant ==
    /\ pc = "walk"
    /\ walk_i < Len(map_variants)
    /\ LET v == map_variants[walk_i + 1]
           c == cumulative + v.weight
       IN /\ cumulative' = c
          /\ IF ThresholdBelow(t_num, c)
             THEN picked' = v /\ pc' = "paste"
             ELSE picked' = picked
                  /\ pc' = IF walk_i + 1 = Len(map_variants) THEN "paste" ELSE "walk"
    /\ walk_i' = walk_i + 1
    /\ UNCHANGED <<cell, map_variants, t_num, pattern, cell_mask, out, batchVars, maskVars,
                   quadVars, inputVars, pickVars, genVars>>

InitTestMap ==
    /\ pc = "hash"
    /\ cell \in Positions
    /\ map_variants \in StoredLists
    /\ t_num = <<>> /\ cumulative = 0 /\ picked = <<>> /\ walk_i = 0
    /\ pattern = <<>> /\ cell_mask = 0 /\ out = {}
    /\ MaskIdle /\ QuadIdle /\ InputIdle /\ PickIdle /\ GenIdle /\ BatchIdle

NextTestMap == HashCell \/ WalkVariant

SpecTestMap == InitTestMap /\ [][NextTestMap]_vars

(***************************************************************************)
(* generate_test_map as process_single calls it: after the generation, the *)
(* cells of a fill pattern are visited row by row, and every filled cell   *)
(* whose mask has variants gets one of them pasted.                        *)
(***************************************************************************)
MaxRows == 3      \* rows of a fill pattern
PatternCols == 3  \* columns of a fill pattern

\* The fill patterns of the model: every filling of the grid.
Patterns == [1..MaxRows -> [1..PatternCols -> {0, 1}]]

_cell_filled(pattern_, y_, x_) ==
    LET h_ == Len(pattern_)
        w_ == Len(pattern_[1])
    IN 0 <= y_ /\ y_ < h_ /\ 0 <= x_ /\ x_ < w_ /\ pattern_[y_ + 1][x_ + 1] /= 0

\* A plausible slip: the NE diagonal is gated by N alone.
_compute_cell_mask_ungated(pattern_, y_, x_) ==
    LET n_ == IF _cell_filled(pattern_, y_ - 1, x_) THEN N ELSE 0
        e_ == IF _cell_filled(pattern_, y_, x_ + 1) THEN E ELSE 0
        s_ == IF _cell_filled(pattern_, y_ + 1, x_) THEN S ELSE 0
        w_ == IF _cell_filled(pattern_, y_, x_ - 1) THEN W ELSE 0
        ne == IF n_ /= 0 /\ _cell_filled(pattern_, y_ - 1, x_ + 1) THEN NE ELSE 0
        se == IF s_ /= 0 /\ e_ /= 0 /\ _cell_filled(pattern_, y_ + 1, x_ + 1) THEN SE ELSE 0
        sw == IF s_ /= 0 /\ w_ /= 0 /\ _cell_filled(pattern_, y_ + 1, x_ - 1) THEN SW ELSE 0
        nw == IF n_ /= 0 /\ w_ /= 0 /\ _cell_filled(pattern_, y_ - 1, x_ - 1) THEN NW ELSE 0
    IN n_ + e_ + s_ + w_ + ne + se + sw + nw

_compute_cell_mask(pattern_, y_, x_) ==
    LET n_ == IF _cell_filled(pattern_, y_ - 1, x_) THEN N ELSE 0
        e_ == IF _cell_filled(pattern_, y_, x_ + 1) THEN E ELSE 0
        s_ == IF _cell_filled(pattern_, y_ + 1, x_) THEN S ELSE 0
        w_ == IF _cell_filled(pattern_, y_, x_ - 1) THEN W ELSE 0
        ne == IF n_ /= 0 /\ e_ /= 0 /\ _cell_filled(pattern_, y_ - 1, x_ + 1) THEN NE ELSE 0
        se == IF s_ /= 0 /\ e_ /= 0 /\ _cell_filled(pattern_, y_ + 1, x_ + 1) THEN SE ELSE 0
        sw == IF s_ /= 0 /\ w_ /= 0 /\ _cell_filled(pattern_, y_ + 1, x_ - 1) THEN SW ELSE 0
        nw == IF n_ /= 0 /\ w_ /= 0 /\ _cell_filled(pattern_, y_ - 1, x_ - 1) THEN NW ELSE 0
    IN n_ + e_ + s_ + w_ + ne + se + sw + nw

\* The cell after (x, y) in "for y in range(map_h): for x in range(map_w)";
\* the row map_h when (x, y) was the last one.
NextCell(pattern_, at) ==
    IF at[1] + 1 < Len(pattern_[1]) THEN <<at[1] + 1, at[2]>> ELSE <<0, at[2] + 1>>

\* The loop is over once the row in hand is map_h.
AfterCell(pattern_, at) ==
    IF NextCell(pattern_, at)[2] = Len(pattern_) THEN "map_done" ELSE "cell"

\* process_single, "optional: test map": generate_test_map is entered with
\* the generated variant set; the pattern is the input of the loop.
EnterTestMap ==
    /\ pc = "done"
    /\ \E pattern_ \in Patterns : pattern' = pattern_
    /\ cell' = <<0, 0>>
    /\ out' = {}
    /\ pc' = "cell"
    /\ UNCHANGED <<map_variants, t_num, cumulative, picked, walk_i, cell_mask, batchVars,
                   maskVars, quadVars, inputVars, pickVars, genVars>>

\* generate_test_map: one cell, up to the lookup of its variants; an empty
\* cell and a cell without variants are passed over.
VisitCell ==
    /\ pc = "cell"
    /\ IF pattern[cell[2] + 1][cell[1] + 1] = 0
       THEN /\ cell' = NextCell(pattern, cell)
            /\ pc' = AfterCell(pattern, cell)
            /\ UNCHANGED <<cell_mask, map_variants>>
       ELSE LET mask_ == _compute_cell_mask(pattern, cell[2], cell[1])
                variants_ == IF mask_ \in DOMAIN all_results THEN all_results[mask_] ELSE <<>>
            IN /\ cell_mask' = mask_
               /\ map_variants' = variants_
               /\ IF variants_ = <<>>
                  THEN cell' = NextCell(pattern, cell) /\ pc' = AfterCell(pattern, cell)
                  ELSE cell' = cell /\ pc' = "hash"
    /\ UNCHANGED <<t_num, cumulative, picked, walk_i, pattern, out, batchVars, maskVars,
                   quadVars, inputVars, pickVars, genVars>>

\* generate_test_map: out.paste(chosen.image, (x * ts, y * ts)), and on to the
\* next cell.
PasteCell ==
    /\ pc = "paste"
    /\ pattern /= <<>>
    /\ out' = out \cup {[at |-> <<cell[1] * ts, cell[2] * ts>>, image |-> picked.image]}
    /\ cell' = NextCell(pattern, cell)
    /\ pc' = AfterCell(pattern, cell)
    /\ UNCHANGED <<map_variants, t_num, cumulative, picked, walk_i, pattern, cell_mask,
                   batchVars, maskVars, quadVars, inputVars, pickVars, genVars>>

\* The role table of the rendered runs: two center sources, one source for
\* every other role.
RenderTables == {ManyOfOneRole(ALL_VALID_ROLES, "center", <<1, 2>>)}

InitRender ==
    /\ pc = "start"
    /\ roles \in RenderTables
    /\ seed = DEFAULT_SEED
    /\ max_variants = <<>>
    /\ layout = "variants_y"
    /\ ts = MIN_TILE_SIZE
    /\ input = <<>>
    /\ MaskIdle /\ QuadIdle /\ PickIdle /\ GenIdle
    /\ MapIdle /\ BatchIdle

NextRender ==
    \/ NextGen
    \/ EnterTestMap
    \/ VisitCell
    \/ HashCell
    \/ WalkVariant
    \/ PasteCell

SpecRender == InitRender /\ [][NextRender]_vars

(***************************************************************************)
(* The generate mode of main: one call of process_single per input.  What  *)
(* a call prints and whether it raises is decided by its load step; the    *)
(* generation that follows a successful load raises nothing.               *)
(***************************************************************************)
MaxBatch == 3     \* inputs of a run: 1..MaxBatch

\* One input file per outcome of the load step, and a file that is neither a
\* manifest nor a template.
BatchFiles ==
    {CHOOSE f \in Manifests \cup Templates : LoadInput(f).status = s :
        s \in {"ok", "ValueError", "FileNotFoundError"}}
    \cup {[suffix |-> ".txt"]}

\* A plausible slip: the run exits on the first error whatever the batch.
ExitsOnError_always(inputs_) == TRUE

\* if len(inputs) == 1: sys.exit(1)
ExitsOnError(inputs_) == Len(inputs_) = 1

\* What one pass of the loop leaves on the output for input_path.
Report(file) ==
    LET status == LoadInput(file).status
    IN [input |-> file,
        printed |-> IF status = "ok" THEN "Done" ELSE "Error",
        raised |-> IF status = "ok" THEN "none" ELSE status]

\* main: one pass of "for input_path in inputs".
ProcessInput ==
    /\ pc = "batch"
    /\ batch_i < Len(inputs)
    /\ LET report == Report(inputs[batch_i + 1])
       IN /\ log' = Append(log, report)
          /\ IF report.raised /= "none" /\ ExitsOnError(inputs)
             THEN exit_status' = <<1>> /\ pc' = "exited"
             ELSE IF batch_i + 1 = Len(inputs)
             THEN exit_status' = <<0>> /\ pc' = "returned"
             ELSE exit_status' = exit_status /\ pc' = "batch"
    /\ batch_i' = batch_i + 1
    /\ UNCHANGED <<inputs, mapVars, maskVars, quadVars, inputVars, pickVars, genVars>>

InitBatch ==
    /\ pc = "batch"
    /\ inputs \in UNION {[1..n -> BatchFiles] : n \in 1..MaxBatch}
    /\ batch_i = 0
    /\ log = <<>>
    /\ exit_status = <<>>
    /\ MaskIdle /\ QuadIdle /\ InputIdle /\ PickIdle /\ GenIdle /\ MapIdle

NextBatch == ProcessInput

SpecBatch == InitBatch /\ [][NextBatch]_vars

(***************************************************************************)
(* Properties of the mask algebra and the quadrant resolver.               *)
(***************************************************************************)
Cardinals == {N, E, S, W}
Directions == {N, NE, E, SE, S, SW, W, NW}

\* For a diagonal bit, its two adjacent cardinal bits.
AdjacentCardinals(d) ==
    CASE d = NE -> {N, E} [] d = SE -> {S, E} [] d = SW -> {S, W} [] d = NW -> {N, W}

\* C1: for every raw mask m, reduce_bitmask(m) keeps the four cardinal bits
\* of m, sets no bit that is clear in m, and has a diagonal bit set exactly
\* when m has that diagonal and both of its adjacent cardinals.
C1_ReduceGatesDiagonals ==
    \A m \in DOMAIN reduced :
        LET r == reduced[m]
        IN /\ r \in 0..(RAW_RANGE - 1)
           /\ \A c \in Cardinals : HasBit(r, c) = HasBit(m, c)
           /\ \A b \in Directions : HasBit(r, b) => HasBit(m, b)
           /\ \A d \in Directions \ Cardinals :
                  HasBit(r, d) = (HasBit(m, d) /\ \A c \in AdjacentCardinals(d) : HasBit(m, c))

\* All 256 raw masks reduced; one lost every diagonal, one kept them all.
C1_Witness ==
    /\ DOMAIN reduced = 0..(RAW_RANGE - 1)
    /\ reduced[NE + SE + SW + NW] = 0
    /\ reduced[RAW_RANGE - 1] = RAW_RANGE - 1
    /\ reduced[N + NE] = N

\* C2: reduce_bitmask is idempotent on every raw mask.
C2_ReduceIdempotent ==
    \A m \in DOMAIN reduced : reduce_bitmask(reduced[m]) = reduced[m]

\* All 256 raw masks reduced, among them masks that the reduction changed.
C2_Witness ==
    /\ raw = RAW_RANGE
    /\ \E m \in DOMAIN reduced : reduced[m] /= m
    /\ \E m \in DOMAIN reduced : reduced[m] = m /\ m /= 0

\* C3: compute_47_bitmasks returns exactly 47 pairwise distinct values in
\* strictly ascending order, each a fixed point of reduce_bitmask, and never
\* takes the RuntimeError branch.
C3_FortySevenCanonical ==
    /\ pc /= "RuntimeError"
    /\ pc = "returned" =>
          /\ Len(bitmasks) = 47
          /\ Cardinality({bitmasks[i] : i \in 1..Len(bitmasks)}) = 47
          /\ \A i \in 1..(Len(bitmasks) - 1) : bitmasks[i] < bitmasks[i + 1]
          /\ \A i \in 1..Len(bitmasks) : reduce_bitmask(bitmasks[i]) = bitmasks[i]
          /\ {bitmasks[i] : i \in 1..Len(bitmasks)} = {reduced[m] : m \in DOMAIN reduced}

\* compute_47_bitmasks has returned its list, from 0 up to 255.
C3_Witness ==
    /\ pc = "returned"
    /\ Len(bitmasks) > 0
    /\ bitmasks[1] = 0
    /\ bitmasks[Len(bitmasks)] = 255

\* What C5 expects of each quadrant: the vertical and horizontal cardinal,
\* the diagonal between them, and the corner, edge and inner roles.
C5_Expected(q) ==
    CASE q = "TL" -> [v |-> N, h |-> W, d |-> NW, corner |-> "outer_tl",
                      only_v |-> "outer_left", only_h |-> "outer_top", inner |-> "inner_d"]
      [] q = "TR" -> [v |-> N, h |-> E, d |-> NE, corner |-> "outer_tr",
                      only_v |-> "outer_right", only_h |-> "outer_top", inner |-> "inner_c"]
      [] q = "BL" -> [v |-> S, h |-> W, d |-> SW, corner |-> "outer_bl",
                      only_v |-> "outer_left", only_h |-> "outer_bottom", inner |-> "inner_b"]
      [] q = "BR" -> [v |-> S, h |-> E, d |-> SE, corner |-> "outer_br",
                      only_v |-> "outer_right", only_h |-> "outer_bottom", inner |-> "inner_a"]

\* C5: _get_quadrant_role returns the corner role when both cardinals of the
\* quadrant are clear, the matching edge role when exactly one is set, the
\* inner role with composite when both are set and the diagonal is clear, and
\* center when all three are set; composite is true in no other case.
C5_QuadrantRole ==
    pc = "resolved" =>
        LET x == C5_Expected(quadrant)
            v == HasBit(mask, x.v)
            h == HasBit(mask, x.h)
            d == HasBit(mask, x.d)
        IN /\ (~v /\ ~h) => q_role = <<x.corner, FALSE>>
           /\ (v /\ ~h) => q_role = <<x.only_v, FALSE>>
           /\ (~v /\ h) => q_role = <<x.only_h, FALSE>>
           /\ (v /\ h /\ ~d) => q_role = <<x.inner, TRUE>>
           /\ (v /\ h /\ d) => q_role = <<"center", FALSE>>
           /\ q_role[2] = (v /\ h /\ ~d)

\* The resolver has answered for an inner notch of the top-left quadrant.
C5_Witness ==
    /\ pc = "resolved"
    /\ quadrant = "TL"
    /\ mask = N + W + S
    /\ q_role = <<"inner_d", TRUE>>

(***************************************************************************)
(* Properties of the variant selector.                                     *)
(***************************************************************************)
\* Position (from 1) in its role's candidate list of the entry picked for
\* role r at the d-th recorded draw (draw index d - 1).
PickedAt(d, r) == picks[d][r].file

\* C6: for a role with n >= 1 candidates, the draws 0..n-1 select every one
\* of the n candidates exactly once, and the candidate selected at draw
\* d + 1 is the cyclic successor, in list order, of the one selected at d.
C6_FullCycle ==
    \A r \in DOMAIN roles :
        LET n == Len(roles[r])
        IN /\ \A d \in 1..Len(picks) :
                  /\ PickedAt(d, r) \in 1..n
                  /\ picks[d][r] = roles[r][PickedAt(d, r)]
           /\ Len(picks) >= n =>
                  /\ {PickedAt(d, r) : d \in 1..n} = 1..n
                  /\ \A d1, d2 \in 1..n : PickedAt(d1, r) = PickedAt(d2, r) => d1 = d2
           /\ \A d \in 1..(Len(picks) - 1) :
                  PickedAt(d + 1, r) = (PickedAt(d, r) % n) + 1

\* A role with three candidates has been drawn three times, starting from
\* its second candidate and wrapping round to its first.
C6_Witness ==
    \E r \in DOMAIN roles :
        /\ Len(roles[r]) = 3
        /\ Len(picks) >= 3
        /\ PickedAt(1, r) = 2
        /\ PickedAt(2, r) = 3
        /\ PickedAt(3, r) = 1

\* The table with the optional roles in gone removed.
WithoutRoles(roles_, gone) == [r \in DOMAIN roles_ \ gone |-> roles_[r]]

\* How many of the roles in gone sort before r.
GoneBefore(gone, r) == Cardinality({g \in gone : RoleOrder(g) < RoleOrder(r)})

\* C7 as claimed: for two role tables that differ only in whether inner_e and
\* inner_f are present, the same seed and draw index select the same candidate
\* for every role.
C7_Claimed_SamePickWithoutOptional ==
    \A gone \in SUBSET (OPTIONAL_ROLES \cap DOMAIN roles) :
        \A d \in 1..Len(picks) :
            \A r \in DOMAIN roles \ gone :
                _pick_per_role(WithoutRoles(roles, gone), d - 1, seed)[r] = picks[d][r]

\* C7 as amended: the rank is the role's position among the roles present.
\* Removing optional roles leaves the pick of a role unchanged when none of
\* them sorts before it (center, inner_a..inner_d), and otherwise rotates it
\* back by 7 positions for each removed role sorting before it.
C7_PickFollowsRankAmongPresent ==
    \A gone \in SUBSET (OPTIONAL_ROLES \cap DOMAIN roles) :
        \A d \in 1..Len(picks) :
            \A r \in DOMAIN roles \ gone :
                LET n == Len(roles[r])
                    other == _pick_per_role(WithoutRoles(roles, gone), d - 1, seed)[r]
                IN /\ other = roles[r][other.file]
                   /\ other.file = ((PickedAt(d, r) - 1 - 7 * GoneBefore(gone, r)) % n) + 1
                   /\ (GoneBefore(gone, r) = 0) => other = picks[d][r]

\* A table with inner_e present and two candidates for single, drawn once.
C7_Witness ==
    /\ "inner_e" \in DOMAIN roles
    /\ Len(roles["single"]) = 2
    /\ Len(picks) >= 1
    /\ _pick_per_role(WithoutRoles(roles, {"inner_e"}), 0, seed)["single"] /= picks[1]["single"]

Selected == _pick_per_role(roles, variant_idx, seed)

\* The special path of mask 85 was taken for the composed variant.
SpecialPath85 ==
    /\ pc = "composed"
    /\ mask = N + E + S + W
    /\ "inner_e" \in DOMAIN roles
    /\ "inner_f" \in DOMAIN roles

\* C9 as claimed: on the special path of mask 85 the weight of the variant
\* is the selected inner_e weight times the selected inner_f weight, each
\* counted once.
C9_Claimed_ProductOnce ==
    SpecialPath85 =>
        tile.weight = Selected["inner_e"].weight * Selected["inner_f"].weight

\* C9 as amended: on the special path of mask 85 the selected inner_e entry
\* fills TL and BR, the selected inner_f entry fills TR and BL, and the weight
\* is the product over the four quadrants, so each of the two weights is
\* counted twice: (inner_e weight * inner_f weight) squared.
C9_ProductPerQuadrant ==
    SpecialPath85 =>
        LET e == Selected["inner_e"]
            f == Selected["inner_f"]
        IN /\ tile.image["TL"].fg = <<"inner_e", e.file, "TL">>
           /\ tile.image["BR"].fg = <<"inner_e", e.file, "BR">>
           /\ tile.image["TR"].fg = <<"inner_f", f.file, "TR">>
           /\ tile.image["BL"].fg = <<"inner_f", f.file, "BL">>
           /\ tile.weight = (e.weight * f.weight) * (e.weight * f.weight)

\* Mask 85 composed on the special path from entries of weights 2 and 3.
C9_Witness ==
    /\ SpecialPath85
    /\ Selected["inner_e"].weight = 2
    /\ Selected["inner_f"].weight = 3
    /\ tile.weight = 36

\* The primary role of a quadrant, by the rule table of C5.
PrimaryRole(q, m) ==
    LET x == C5_Expected(q)
        v == HasBit(m, x.v)
        h == HasBit(m, x.h)
        d == HasBit(m, x.d)
    IN IF ~v /\ ~h THEN x.corner
       ELSE IF v /\ ~h THEN x.only_v
       ELSE IF ~v /\ h THEN x.only_h
       ELSE IF ~d THEN x.inner
       ELSE "center"

\* The general path was taken for the composed variant.
GeneralPath ==
    /\ pc = "composed"
    /\ mask /= 0
    /\ ~SpecialPath85

\* C10: on the general path the weight of the variant is the product over
\* the four quadrants of the weight of the entry selected for the quadrant's
\* primary role: a role filling several quadrants counts once per quadrant,
\* and the center entry under an inner notch counts for nothing.
C10_ProductOverQuadrants ==
    GeneralPath =>
        tile.weight = Selected[PrimaryRole("TL", mask)].weight
                      * Selected[PrimaryRole("TR", mask)].weight
                      * Selected[PrimaryRole("BL", mask)].weight
                      * Selected[PrimaryRole("BR", mask)].weight

\* Mask N+E+S composed: outer_left fills TL and BL, the inner corners of TR
\* and BR lie over a center entry whose weight is not 1.
C10_Witness ==
    /\ GeneralPath
    /\ mask = N + E + S
    /\ Selected["outer_left"].weight = 2
    /\ Selected["center"].weight = 3
    /\ tile.image["TR"].bg /= <<>>
    /\ tile.weight = 4 * Selected["inner_c"].weight * Selected["inner_a"].weight

(***************************************************************************)
(* Properties of the variant set builder.                                  *)
(***************************************************************************)
\* The masks that have an entry in the emitted index.
IndexedMasks == {ron.tiles[i].mask : i \in 1..Len(ron.tiles)}

\* C4: after generate_all_variants, for every raw mask m in 0..255 the mask
\* reduce_bitmask(m) is a key of the variant set with at least one variant,
\* and so it is in the emitted index, whatever the table, seed and cap.
C4_EveryMaskHasVariant ==
    /\ pc \in {"generated", "verified", "laid_out", "done"} =>
          \A m \in 0..255 :
              /\ reduce_bitmask(m) \in DOMAIN all_results
              /\ Len(all_results[reduce_bitmask(m)]) >= 1
    /\ pc = "done" =>
          /\ \A m \in 0..255 : reduce_bitmask(m) \in IndexedMasks
          /\ \A i \in 1..Len(ron.tiles) : Len(ron.tiles[i].variants) >= 1

\* Generation done under a cap of 0 with two centre candidates: mask 255
\* still has its one variant, and the index lists all 47 masks.
C4_Witness ==
    /\ pc = "done"
    /\ max_variants = <<0>>
    /\ Len(roles["center"]) = 2
    /\ Len(all_results[255]) = 1
    /\ Len(ron.tiles) = 47

\* The roles whose entries a composed buffer was read from.
RolesRead(image_) ==
    UNION {{image_[q].fg[1]} \cup (IF image_[q].bg = <<>> THEN {} ELSE {image_[q].bg[1][1]}) :
              q \in Quadrants}

\* The roles C11 names for a mask: single for mask 0, inner_e, inner_f and
\* center on the special path of mask 85, and otherwise the primary roles of
\* the four quadrants, with center when a quadrant is composited.
C11_RolesNamed(m) ==
    IF m = 0 THEN {"single"}
    ELSE IF m = N + E + S + W /\ OPTIONAL_ROLES \subseteq DOMAIN roles
         THEN {"inner_e", "inner_f", "center"}
    ELSE {PrimaryRole(q, m) : q \in Quadrants}
         \cup (IF \E q \in Quadrants : PrimaryRole(q, m) = C5_Expected(q).inner
               THEN {"center"} ELSE {})

\* C11: every processed mask has k = max(1, min(cap, M)) variants, the cap
\* left out when none is given, where M is the largest candidate count among
\* the roles the variants of the mask were read from, and those roles are
\* the ones the claim names; a cap of 0 or less gives k = 1.
C11_VariantCount ==
    \A m \in DOMAIN all_results :
        LET n == Len(all_results[m])
            M == MaxOf({Len(roles[r]) : r \in C11_RolesNamed(m)})
        IN /\ \A v \in 1..n : RolesRead(all_results[m][v].image) = C11_RolesNamed(m)
           /\ n = Max2(1, IF max_variants = <<>> THEN M ELSE Min2(max_variants[1], M))
           /\ (max_variants /= <<>> /\ max_variants[1] <= 0) => n = 1

\* No cap, two centre candidates and one of everything else: mask N+E+S,
\* whose right-hand quadrants are composited over the centre, has two
\* variants and mask 0 has one.
C11_Witness ==
    /\ pc = "generated"
    /\ max_variants = <<>>
    /\ Len(roles["center"]) = 2
    /\ Len(roles["inner_c"]) = 1
    /\ Len(roles["outer_left"]) = 1
    /\ Len(all_results[N + E + S]) = 2
    /\ Len(all_results[0]) = 1

\* The stored weights of the variants of mask m, summed, in millionths.
StoredSum(m) == SumWeights(all_results[m], Len(all_results[m]))

\* C12 as claimed: for every processed mask the stored weights, each rounded
\* to 6 decimals, sum to 1 within 1e-6 (one millionth).
C12_Claimed_SumWithinTolerance ==
    \A m \in DOMAIN all_results :
        /\ StoredSum(m) - 1000000 <= 1
        /\ 1000000 - StoredSum(m) <= 1

(***************************************************************************)
(* Properties of the atlas and its index.                                  *)
(***************************************************************************)
\* The run has a variant set, an atlas image, an index.
HasVariantSet == pc \in {"generated", "verified", "laid_out", "done"}
HasSheet == pc \in {"laid_out", "done"}
HasIndex == pc = "done"

\* C13: the variant-dimension size generate_all_variants returns is the
\* largest variant count over the processed masks; the atlas image is that
\* many tiles wide and 47 tiles high under variants_y, 47 wide and that many
\* high under variants_x; atlas_columns and atlas_rows of the index are the
\* same pair.
C13_AtlasGrid ==
    /\ DOMAIN all_results /= {} =>
           global_max = MaxOf({Len(all_results[m]) : m \in DOMAIN all_results})
    /\ HasSheet =>
           /\ layout = "variants_y" =>
                  sheet.width = global_max * ts /\ sheet.height = 47 * ts
           /\ layout = "variants_x" =>
                  sheet.width = 47 * ts /\ sheet.height = global_max * ts
    /\ HasIndex =>
           /\ ron.atlas_columns * ron.tile_size = sheet.width
           /\ ron.atlas_rows * ron.tile_size = sheet.height
           /\ layout = "variants_y" => ron.atlas_columns = global_max /\ ron.atlas_rows = 47
           /\ layout = "variants_x" => ron.atlas_columns = 47 /\ ron.atlas_rows = global_max

\* A run under variants_x with at most two variants per mask: the index
\* gives 47 columns and 2 rows, the size of the image.
C13_Witness ==
    /\ HasIndex
    /\ layout = "variants_x"
    /\ global_max = 2
    /\ Len(all_results[0]) = 1
    /\ ron.atlas_columns = 47
    /\ ron.atlas_rows = 2
    /\ sheet.width = 47 * ts
    /\ sheet.height = 2 * ts

\* The cells of the index: (position of the mask, variant) -> (col, row).
IndexCells(ron_) ==
    [p \in UNION {{<<i, v>> : v \in 1..Len(ron_.tiles[i].variants)} :
                      i \in 1..Len(ron_.tiles)} |->
        <<ron_.tiles[p[1]].variants[p[2]].col, ron_.tiles[p[1]].variants[p[2]].row>>]

OtherLayout == IF layout = "variants_y" THEN "variants_x" ELSE "variants_y"

\* C14: every variant of the index has a cell inside the grid, no two
\* variants have the same cell, the buffer pasted at that cell of the atlas
\* image is the variant's, nothing is pasted anywhere else, and the cell the
\* other layout gives the variant is the transpose.
C14_CellsAgree ==
    HasIndex =>
        LET cells == IndexCells(ron)
            other == IndexCells(generate_ron_mapping(all_results, bitmasks, ts,
                                                     global_max, OtherLayout))
        IN /\ \A p \in DOMAIN cells :
                  /\ cells[p][1] \in 0..(ron.atlas_columns - 1)
                  /\ cells[p][2] \in 0..(ron.atlas_rows - 1)
                  /\ <<cells[p][1] * ts, cells[p][2] * ts>> \in DOMAIN sheet.pasted
                  /\ sheet.pasted[<<cells[p][1] * ts, cells[p][2] * ts>>]
                         = all_results[ron.tiles[p[1]].mask][p[2]].image
                  /\ other[p] = <<cells[p][2], cells[p][1]>>
           /\ Cardinality({cells[p] : p \in DOMAIN cells}) = Cardinality(DOMAIN cells)
           /\ Cardinality(DOMAIN sheet.pasted) = Cardinality(DOMAIN cells)
           /\ DOMAIN other = DOMAIN cells
           /\ \A m \in DOMAIN all_results :
                  \E i \in 1..Len(ron.tiles) :
                      /\ ron.tiles[i].mask = m
                      /\ Len(ron.tiles[i].variants) = Len(all_results[m])

\* A run under variants_x: the second variant of mask 255, the last mask, is
\* indexed at column 46, row 1, where its buffer is pasted.
C14_Witness ==
    /\ HasIndex
    /\ layout = "variants_x"
    /\ Len(all_results[255]) = 2
    /\ ron.tiles[47].mask = 255
    /\ ron.tiles[47].variants[2].col = 46
    /\ ron.tiles[47].variants[2].row = 1
    /\ sheet.pasted[<<46 * ts, 1 * ts>>] = all_results[255][2].image

(***************************************************************************)
(* Determinism of a generation run.                                        *)
(***************************************************************************)
\* The masks whose stored variants are looked at in a state: all of them
\* when generate_all_variants returns and when the run ends, and the mask
\* stored last in between.
C15_MasksLooked ==
    IF pc \in {"generated", "done"} THEN DOMAIN all_results
    ELSE {bitmasks[i] : i \in {bm_idx} \cap (1..Len(bitmasks))}

\* C15: whatever the order in which a run visits the roles of a mask, the
\* run processes the masks in ascending canonical order, stores for each
\* mask the variants of draw indices 0, 1, ... in that order, as many of
\* them as any other run on the same role table, seed and cap, and lists the
\* masks and their variants in the index in the same order; so the variant
\* set, the atlas and the index are fixed by the role table, seed, cap and
\* layout.
C15_Deterministic ==
    /\ pc \in {"generate", "variants"} \cup {"generated", "verified", "laid_out", "done"} =>
           /\ DOMAIN all_results = {bitmasks[i] : i \in 1..bm_idx}
           /\ \A i \in 1..(Len(bitmasks) - 1) : bitmasks[i] < bitmasks[i + 1]
    /\ pc = "variants" => k = _variant_count_for_mask(bitmasks[bm_idx + 1], roles, max_variants)
    /\ \A m \in C15_MasksLooked :
           /\ all_results[m] =
                  VariantsOfMask(m, _variant_count_for_mask(m, roles, max_variants),
                                 roles, seed, ts)
           /\ \A v \in 1..Len(all_results[m]) :
                  all_results[m][v].image
                      = _generate_single_variant(m, roles, v - 1, seed, ts).image
    /\ HasSheet => sheet = layout_spritesheet(all_results, bitmasks, ts, global_max, layout)
    /\ HasIndex =>
           /\ Len(ron.tiles) = Len(bitmasks)
           /\ \A i \in 1..Len(ron.tiles) :
                  /\ ron.tiles[i].mask = bitmasks[i]
                  /\ Len(ron.tiles[i].variants) = Len(all_results[bitmasks[i]])
                  /\ \A v \in 1..Len(ron.tiles[i].variants) :
                         /\ ron.tiles[i].variants[v].index = v - 1
                         /\ ron.tiles[i].variants[v].weight = all_results[bitmasks[i]][v].weight

\* A finished run in which mask N+E+S, whose count is taken over four roles
\* with different candidate counts, has two variants.
C15_Witness ==
    /\ HasIndex
    /\ Len(roles["center"]) = 2
    /\ Len(roles["outer_left"]) = 1
    /\ max_variants = <<>>
    /\ Len(all_results[N + E + S]) = 2
    /\ ron.tiles[9].mask = N + E + S
    /\ ron.tiles[9].variants[2].index = 1

(***************************************************************************)
(* Properties of the loaders and of the self-check.                        *)
(***************************************************************************)
\* A loader has returned a role table.
Loaded == pc \notin {"load", "ValueError", "FileNotFoundError"}

\* C17 as claimed: every role table a loader returns, from a manifest or
\* from a template, has a tile size that is a positive even integer.
C17_Claimed_TileSizeEven ==
    Loaded => ts > 0 /\ ts % 2 = 0

\* C16 as claimed: when single has one candidate, variant 0 of mask 0 is the
\* buffer of that candidate; when center has one candidate, variant 0 of
\* mask 255 is the buffer of that candidate; and the self-check reports no
\* mismatch for either, for every role table a loader returns.
C16_Claimed_ExactCopies ==
    /\ (0 \in DOMAIN all_results /\ Len(roles["single"]) = 1) =>
           all_results[0][1].image = EntryImage(roles["single"][1], ts)
    /\ (255 \in DOMAIN all_results /\ Len(roles["center"]) = 1) =>
           all_results[255][1].image = EntryImage(roles["center"][1], ts)
    /\ \A i \in 1..Len(messages) :
           messages[i] \notin {"bitmask 255 differs from CENTER", "bitmask 0 differs from SINGLE"}

(***************************************************************************)
(* Properties of the variant picker.                                       *)
(***************************************************************************)
\* The threshold of the cell has been computed.
Hashed == pc \in {"walk", "paste"}

RunningSum(n) == SumWeights(map_variants, n)

\* The places of the list whose running sum strictly exceeds the threshold.
Exceeding == {n \in 1..Len(map_variants) : ThresholdBelow(position_hash(cell[1], cell[2]), RunningSum(n))}

\* C19: the picker returns the first variant of the list whose running
\* weight sum strictly exceeds the threshold of the position, and the first
\* variant of the list when no running sum does; the result is fixed by the
\* position and the list.
C19_FirstExceeding ==
    pc = "paste" =>
        /\ Exceeding /= {} =>
               /\ picked = map_variants[CHOOSE n \in Exceeding : \A o \in Exceeding : n <= o]
               /\ walk_i = CHOOSE n \in Exceeding : \A o \in Exceeding : n <= o
        /\ Exceeding = {} =>
               /\ picked = map_variants[1]
               /\ walk_i = Len(map_variants)

\* Three variants of weight 0.333333 at a position whose threshold is below 1
\* and above their sum 0.999999: the walk ends without a break and the first
\* variant is returned.
C19_Witness ==
    /\ pc = "paste"
    /\ cell = <<2390, 1088>>
    /\ t_num = <<254, 255, 255, 255>>
    /\ Len(map_variants) = 3
    /\ cumulative = 999999
    /\ walk_i = 3
    /\ picked = map_variants[1]

(***************************************************************************)
(* Properties of the batch run.                                            *)
(***************************************************************************)
\* The places of the batch whose input fails with a structural input error.
Failing == {i \in 1..Len(inputs) : LoadInput(inputs[i]).status \in {"ValueError", "FileNotFoundError"}}

\* C20: in a run over two or more inputs an input that raises ValueError or
\* FileNotFoundError is reported for that input only, every input is
\* processed in order and the run returns after the last one without an
\* early exit; with exactly one input the same error ends the run with exit
\* status 1.
C20_BatchGoesOn ==
    pc \in {"batch", "returned", "exited"} =>
        /\ Len(log) = batch_i
        /\ \A i \in 1..batch_i :
               /\ log[i].input = inputs[i]
               /\ (log[i].printed = "Error") = (i \in Failing)
        /\ pc = "batch" => batch_i < Len(inputs) /\ exit_status = <<>>
        /\ Len(inputs) >= 2 =>
               /\ pc /= "exited"
               /\ exit_status \in {<<>>, <<0>>}
               /\ pc = "returned" => batch_i = Len(inputs)
        /\ (Len(inputs) = 1 /\ batch_i = 1) =>
               IF 1 \in Failing
               THEN pc = "exited" /\ exit_status = <<1>>
               ELSE pc = "returned" /\ exit_status = <<0>>

\* A run over three inputs whose first raises and whose last was still
\* processed.
C20_Witness ==
    /\ pc = "returned"
    /\ Len(inputs) = 3
    /\ batch_i = 3
    /\ 1 \in Failing
    /\ log[1].raised = "ValueError"
    /\ log[3].printed = "Done"

(***************************************************************************)
(* Properties of the quadrant sampling and of the mask-85 branch.          *)
(***************************************************************************)
\* The row and the column of a quadrant, and the cardinal above or below it
\* and the cardinal beside it.
RowOf(p) == IF p \in {"TL", "TR"} THEN "T" ELSE "B"
ColOf(p) == IF p \in {"TL", "BL"} THEN "L" ELSE "R"
VerticalCardinal(p) == IF RowOf(p) = "T" THEN N ELSE S
HorizontalCardinal(p) == IF ColOf(p) = "L" THEN W ELSE E

\* The sub-quadrant the pixels of an output quadrant were cropped from.
SampledAt(p) == tile.image[p].fg[3]

\* C21: the sub-quadrant sampled for an output quadrant lies in the other row
\* exactly when the quadrant's vertical cardinal is clear in the mask and in
\* the other column exactly when its horizontal cardinal is clear, so it is
\* the output quadrant itself when both are set; under a composited quadrant
\* the center entry is sampled at the same sub-quadrant.
C21_MirroredSource ==
    (pc = "composed" /\ mask /= 0) =>
        \A p \in Quadrants :
            /\ (RowOf(SampledAt(p)) /= RowOf(p)) = ~HasBit(mask, VerticalCardinal(p))
            /\ (ColOf(SampledAt(p)) /= ColOf(p)) = ~HasBit(mask, HorizontalCardinal(p))
            /\ (HasBit(mask, VerticalCardinal(p)) /\ HasBit(mask, HorizontalCardinal(p)))
                   => SampledAt(p) = p
            /\ tile.image[p].bg /= <<>> =>
                   /\ Len(tile.image[p].bg) = 1
                   /\ tile.image[p].bg[1][1] = "center"
                   /\ tile.image[p].bg[1][3] = SampledAt(p)

\* Mask N+E without NE: TL is flipped horizontally, BR vertically, BL on both
\* axes, and TR is the inner corner over the center, both sampled at TR.
C21_Witness ==
    /\ pc = "composed"
    /\ mask = N + E
    /\ SampledAt("TL") = "TR"
    /\ SampledAt("BR") = "TR"
    /\ SampledAt("BL") = "TR"
    /\ tile.image["TR"].fg[1] = "inner_c"
    /\ tile.image["TR"].bg = <<<<"center", tile.image["TR"].bg[1][2], "TR">>>>

\* The role whose entry fills quadrant p of variant v of mask 85, and the
\* role under it.
Over85(v, p) == all_results[N + E + S + W][v].image[p].fg[1]
Under85(v, p) == all_results[N + E + S + W][v].image[p].bg

\* C22: the variants of mask 85 are composed by the whole-tile rule (inner_e
\* in TL and BR, inner_f in TR and BL, over center) exactly when inner_e and
\* inner_f are both in the role table, and otherwise by the per-quadrant rule
\* (inner_d, inner_c, inner_b, inner_a over center); the number of variants
\* is the largest candidate count among the roles the variants were read
\* from, so the count and the composition took the same branch.
C22_Mask85Branch ==
    (N + E + S + W) \in DOMAIN all_results =>
        LET n == Len(all_results[N + E + S + W])
            whole == "inner_e" \in DOMAIN roles /\ "inner_f" \in DOMAIN roles
        IN /\ \A v \in 1..n :
                  /\ whole =>
                         /\ Over85(v, "TL") = "inner_e" /\ Over85(v, "BR") = "inner_e"
                         /\ Over85(v, "TR") = "inner_f" /\ Over85(v, "BL") = "inner_f"
                  /\ ~whole =>
                         /\ Over85(v, "TL") = "inner_d" /\ Over85(v, "TR") = "inner_c"
                         /\ Over85(v, "BL") = "inner_b" /\ Over85(v, "BR") = "inner_a"
                  /\ \A p \in Quadrants :
                         Len(Under85(v, p)) = 1 /\ Under85(v, p)[1][1] = "center"
           /\ n >= 1
           /\ n = Max2(1, LET M == MaxOf({Len(roles[r]) :
                                             r \in RolesRead(all_results[N + E + S + W][1].image)})
                          IN IF max_variants = <<>> THEN M ELSE Min2(max_variants[1], M))

\* Only inner_e is supplied, with two candidates, and every role the
\* per-quadrant rule reads has one: mask 85 has one variant, read from
\* inner_d, inner_c, inner_b, inner_a and center.
C22_Witness ==
    /\ pc = "generated"
    /\ "inner_e" \in DOMAIN roles
    /\ "inner_f" \notin DOMAIN roles
    /\ Len(roles["inner_e"]) = 2
    /\ Len(roles["inner_d"]) = 1
    /\ Len(roles["center"]) = 1
    /\ Len(all_results[N + E + S + W]) = 1
    /\ Over85(1, "TL") = "inner_d"
    /\ Over85(1, "BR") = "inner_a"

(***************************************************************************)
(* Properties of the test-map renderer.                                    *)
(***************************************************************************)
\* The cells of the pattern in hand, as (x, y).
Cells == {<<i - 1, j - 1>> : i \in 1..PatternCols, j \in 1..Len(pattern)}

\* Whether the neighbour of (x, y) at offset (dx, dy) is a filled cell of the
\* pattern; a neighbour outside the pattern is empty.
NeighbourFilled(at, dx, dy) ==
    /\ <<at[1] + dx, at[2] + dy>> \in Cells
    /\ pattern[at[2] + dy + 1][at[1] + dx + 1] = 1

\* The raw 8-neighbour mask of a cell.
RawMask(at) ==
    (IF NeighbourFilled(at, 0, 0 - 1) THEN N ELSE 0)
    + (IF NeighbourFilled(at, 1, 0 - 1) THEN NE ELSE 0)
    + (IF NeighbourFilled(at, 1, 0) THEN E ELSE 0)
    + (IF NeighbourFilled(at, 1, 1) THEN SE ELSE 0)
    + (IF NeighbourFilled(at, 0, 1) THEN S ELSE 0)
    + (IF NeighbourFilled(at, 0 - 1, 1) THEN SW ELSE 0)
    + (IF NeighbourFilled(at, 0 - 1, 0) THEN W ELSE 0)
    + (IF NeighbourFilled(at, 0 - 1, 0 - 1) THEN NW ELSE 0)

\* The cells the loop has left behind: every cell before the one in hand.
Behind ==
    IF pc = "map_done" THEN Cells
    ELSE {at \in Cells : at[2] < cell[2] \/ (at[2] = cell[2] /\ at[1] < cell[1])}

\* C23: for every cell of the pattern _compute_cell_mask returns
\* reduce_bitmask of the cell's raw 8-neighbour mask, which is one of the 47
\* canonical masks; the mask of the cell in hand is what the renderer looked
\* up, the lookup gave variants, and every filled cell left behind was
\* pasted, none skipped.
C23_CellMaskCanonical ==
    pc \in {"cell", "hash", "walk", "paste", "map_done"} =>
        /\ pc = "map_done" => \A at \in Cells :
               /\ _compute_cell_mask(pattern, at[2], at[1]) = reduce_bitmask(RawMask(at))
               /\ \E i \in 1..Len(bitmasks) :
                      bitmasks[i] = _compute_cell_mask(pattern, at[2], at[1])
        /\ pc \in {"hash", "walk", "paste"} =>
               /\ cell_mask = reduce_bitmask(RawMask(cell))
               /\ cell_mask \in DOMAIN all_results
               /\ map_variants = all_results[cell_mask]
               /\ map_variants /= <<>>
        /\ {<<p.at[1] \div ts, p.at[2] \div ts>> : p \in out}
               = {at \in Behind : pattern[at[2] + 1][at[1] + 1] = 1}

\* The full pattern, rendered to the end: the middle cell had the raw mask
\* 255, the corner cell (0, 0) had the raw mask E+SE+S with its other
\* neighbours outside the pattern, and all nine cells were pasted.
C23_Witness ==
    /\ pc = "map_done"
    /\ \A at \in Cells : pattern[at[2] + 1][at[1] + 1] = 1
    /\ RawMask(<<1, 1>>) = 255
    /\ RawMask(<<0, 0>>) = E + SE + S
    /\ Cardinality(out) = Cardinality(Cells)
    /\ cell_mask = reduce_bitmask(RawMask(<<PatternCols - 1, Len(pattern) - 1>>))

====
